---- MODULE Spec2Model ----
(***************************************************************************)
(* Membership store and invitation state machine of the ai_chat_app        *)
(* backend: the group, group_member, group_invitation and                  *)
(* verification_token tables, the repository methods that read and write   *)
(* them and the router handlers that gate those methods.                   *)
(*                                                                         *)
(* Rows carry the columns the handlers branch on.  A row's id is its       *)
(* position in the table (ids are handed out in increasing order by the    *)
(* store).  Free-text columns (name, note) are not represented.            *)
(***************************************************************************)
EXTENDS Integers, Sequences, FiniteSets, TLC

\* ---- bounds ----
NumUsers == 3
MaxGroups == 1
MaxMembers == 2
MaxInvitations == 2
MaxTokens == 1
NumProcs == 2
MaxStoredTokens == 3
MaxUserTokens == 2
MaxAccounts == 2
MaxLogins == 2
MaxApiKeys == 1
NumKeyUsers == 2
ByteValues == 32
NumIVs == 2
AgeSlack == 30
NumPasswords == 2

Users == 1..NumUsers

\* Ids a request may name: every id the store can hand out.
UserIds == 1..(NumUsers + 1)
GroupIds == 1..MaxGroups
MemberIds == 1..MaxMembers
InvitationIds == 1..MaxInvitations
Tokens == 1..MaxTokens
Procs == 1..NumProcs

\* E-mail addresses: user u registered with address u; one address more
\* belongs to nobody.
Emails == 1..(NumUsers + 1)

VARIABLES
    user,              \* user and user_password tables: user_id -> row
    groups,            \* `group` table: sequence of rows, group_id = index
    group_member,      \* group_member table: sequence of rows, member_id = index
    group_invitation,  \* group_invitation table: sequence of rows, invitation_id = index
    verification_token,\* verification_token rows of type 'group_invitation', token = index
    last,              \* the response of the last request served
    observe,           \* whether responses are recorded in `last`
    group_api_key,     \* `group`.api_key_id: group_id -> api_key_id, for the groups
                       \* created by a request that names its credential
    req,               \* the requests in flight: worker -> where its handler is
    api_key            \* api_key table: sequence of rows, api_key_id = index

vars == <<user, groups, group_member, group_invitation, verification_token, last,
          observe, req, api_key, group_api_key>>

\* The tables one transaction works on, as one value.
DB == [user |-> user, groups |-> groups, group_member |-> group_member]

\* An optional boolean of a request body: {} is None.
OptBool == {{}, {TRUE}, {FALSE}}

NoResponse ==
    [op |-> "none", caller |-> 0, gid |-> 0, id |-> 0, code |-> 0, msg |-> "", ret |-> 0]

\* The response of request op by caller on group gid and on member, invitation
\* or user id (0 where the request names none or it is not recorded): the
\* status code, what the detail/message says, and the id the answer returns
\* (0: none).
Response(op, caller, gid, id, code, msg, ret) ==
    IF observe
    THEN [op |-> op, caller |-> caller, gid |-> gid, id |-> id, code |-> code,
          msg |-> msg, ret |-> ret]
    ELSE NoResponse

\* ---- user rows ----
Passwords == 1..NumPasswords

\* get_password_hash / verify_password: a stored hash verifies exactly the
\* password it was made from.
get_password_hash(password) == <<"bcrypt", password>>

verify_password(plain_password, hashed_password) ==
    hashed_password = <<"bcrypt", plain_password>>

\* previous_password IS NULL
NoPassword == <<>>

\* user_password.update_at IS NULL
NoUpdateAt == <<>>

\* user_password.update_at is kept as the time elapsed since its value, in
\* hours: <<0>> is a row written just now.
JustNow == <<0>>

\* The value a row of user_password gets for update_at when the INSERT does
\* not name the column: the time of the INSERT.
DefaultUpdateAt == JustNow

\* No row for this user id yet.
NoUser ==
    [registered |-> FALSE, is_active |-> FALSE, is_group_owner |-> FALSE,
     password |-> NoPassword, previous_password |-> NoPassword,
     update_at |-> NoUpdateAt, login_hist |-> 0]

\* The rows create_user inserts.
NewUser(password, is_active) ==
    [registered |-> TRUE, is_active |-> is_active, is_group_owner |-> FALSE,
     password |-> get_password_hash(password), previous_password |-> NoPassword,
     update_at |-> DefaultUpdateAt, login_hist |-> 0]

\* An account that registered and verified its address.
RegisteredUser == NewUser(1, TRUE)

\* ---- queries ----

\* SELECT ... FROM `group` WHERE group_id = g: 0 rows when g is unknown.
get_group_by_id(g) == g \in 1..Len(groups)

\* SELECT ... FROM group_member WHERE member_id = m
get_member_info(m) == m \in 1..Len(group_member)

\* SELECT ... FROM group_member WHERE user_id = u AND group_id = g (fetchone):
\* the id of the first matching row, 0 when there is none.
MemberIdOf(gm, g, u) ==
    LET ids == {m \in 1..Len(gm) : gm[m].group_id = g /\ gm[m].user_id = u}
    IN  IF ids = {} THEN 0 ELSE CHOOSE m \in ids : \A n \in ids : m <= n

get_member_by_user_and_group(u, g) == MemberIdOf(group_member, g, u)

\* SELECT gm.* FROM group_member gm WHERE gm.group_id = g
get_group_members(g) == {m \in 1..Len(group_member) : group_member[m].group_id = g}

\* ---- GroupRepository.create_group ----

CreateFail == {"none", "no_db", "start", "update_user", "insert_group", "insert_member", "commit"}

\* ROLLBACK: the tables return to what they were at START TRANSACTION.
Rollback(snapshot, working) == snapshot

\* create_group inserting the owner's row as a pending one
repo_create_group_pending_owner(db, owner_user_id, fail) ==
    LET s1 == [db EXCEPT !.user[owner_user_id].is_group_owner = TRUE]
        s2 == [s1 EXCEPT !.groups = Append(@, [owner_user_id |-> owner_user_id,
                                               is_active |-> TRUE])]
        group_id == Len(s2.groups)
        s3 == [s2 EXCEPT !.group_member = Append(@, [group_id |-> group_id,
                                                     user_id |-> owner_user_id,
                                                     is_accpet |-> FALSE,
                                                     is_active |-> TRUE])]
    IN  IF fail = "none" THEN [db |-> s3, group_id |-> group_id, error |-> ""]
        ELSE [db |-> db, group_id |-> 0, error |-> fail]

\* create_group without START TRANSACTION: each statement commits on its own
repo_create_group_no_transaction(db, owner_user_id, fail) ==
    LET s1 == [db EXCEPT !.user[owner_user_id].is_group_owner = TRUE]
        s2 == [s1 EXCEPT !.groups = Append(@, [owner_user_id |-> owner_user_id,
                                               is_active |-> TRUE])]
        group_id == Len(s2.groups)
        s3 == [s2 EXCEPT !.group_member = Append(@, [group_id |-> group_id,
                                                     user_id |-> owner_user_id,
                                                     is_accpet |-> TRUE,
                                                     is_active |-> TRUE])]
    IN  CASE fail = "none"          -> [db |-> s3, group_id |-> group_id, error |-> ""]
          [] fail = "insert_group"  -> [db |-> s1, group_id |-> 0, error |-> fail]
          [] fail = "insert_member" -> [db |-> s2, group_id |-> 0, error |-> fail]
          [] fail = "commit"        -> [db |-> s3, group_id |-> 0, error |-> fail]
          [] OTHER                  -> [db |-> db, group_id |-> 0, error |-> fail]

repo_create_group(db, owner_user_id, fail) ==
    LET s1 == [db EXCEPT !.user[owner_user_id].is_group_owner = TRUE]
        s2 == [s1 EXCEPT !.groups = Append(@, [owner_user_id |-> owner_user_id,
                                               is_active |-> TRUE])]
        group_id == Len(s2.groups)
        s3 == [s2 EXCEPT !.group_member = Append(@, [group_id |-> group_id,
                                                     user_id |-> owner_user_id,
                                                     is_accpet |-> TRUE,
                                                     is_active |-> TRUE])]
    IN  CASE fail = "none"          -> [db |-> s3, group_id |-> group_id, error |-> ""]
          [] fail = "no_db"         -> [db |-> db, group_id |-> 0, error |-> fail]
          [] fail = "start"         -> [db |-> Rollback(db, db), group_id |-> 0, error |-> fail]
          [] fail = "update_user"   -> [db |-> Rollback(db, db), group_id |-> 0, error |-> fail]
          [] fail = "insert_group"  -> [db |-> Rollback(db, s1), group_id |-> 0, error |-> fail]
          [] fail = "insert_member" -> [db |-> Rollback(db, s2), group_id |-> 0, error |-> fail]
          [] fail = "commit"        -> [db |-> Rollback(db, s3), group_id |-> 0, error |-> fail]

\* ---- GroupRepository.delete_group ----

DeleteFail == {"none", "no_db", "start", "update_group", "update_member", "commit"}

\* delete_group without START TRANSACTION: each statement commits on its own
repo_delete_group_no_transaction(db, group_id, fail) ==
    LET s1 == [db EXCEPT !.groups[group_id].is_active = FALSE]
        s2 == [s1 EXCEPT !.group_member =
                  [m \in 1..Len(@) |->
                      IF @[m].group_id = group_id
                      THEN [@[m] EXCEPT !.is_active = FALSE]
                      ELSE @[m]]]
    IN  CASE fail = "none"          -> [db |-> s2, success |-> TRUE, error |-> ""]
          [] fail = "update_member" -> [db |-> s1, success |-> FALSE, error |-> fail]
          [] fail = "commit"        -> [db |-> s2, success |-> FALSE, error |-> fail]
          [] OTHER                  -> [db |-> db, success |-> FALSE, error |-> fail]

repo_delete_group(db, group_id, fail) ==
    LET s1 == [db EXCEPT !.groups[group_id].is_active = FALSE]
        s2 == [s1 EXCEPT !.group_member =
                  [m \in 1..Len(@) |->
                      IF @[m].group_id = group_id
                      THEN [@[m] EXCEPT !.is_active = FALSE]
                      ELSE @[m]]]
    IN  CASE fail = "none"          -> [db |-> s2, success |-> TRUE, error |-> ""]
          [] fail = "no_db"         -> [db |-> db, success |-> FALSE, error |-> fail]
          [] fail = "start"         -> [db |-> Rollback(db, db), success |-> FALSE, error |-> fail]
          [] fail = "update_group"  -> [db |-> Rollback(db, db), success |-> FALSE, error |-> fail]
          [] fail = "update_member" -> [db |-> Rollback(db, s1), success |-> FALSE, error |-> fail]
          [] fail = "commit"        -> [db |-> Rollback(db, s2), success |-> FALSE, error |-> fail]

\* ---- GroupRepository.update_group ----
\* name and api_key_id are not represented: a request that sets only them
\* leaves every represented column as it was.
repo_update_group(g_rows, group_id, is_active) ==
    IF is_active = {} THEN g_rows
    ELSE [g_rows EXCEPT ![group_id].is_active = (TRUE \in is_active)]

\* ---- GroupRepository.add_group_member ----
\* The INSERT names no is_active column: a new row takes the column default.
DefaultIsActive == TRUE

\* add_group_member whose UPDATE leaves is_active as it was
repo_add_group_member_no_reactivate(gm, group_id, user_id, is_accpet, fail) ==
    LET existing == MemberIdOf(gm, group_id, user_id) IN
    IF fail THEN [gm |-> gm, member_id |-> 0, error |-> "add_error"]
    ELSE IF existing # 0
    THEN IF gm[existing].is_accpet /\ gm[existing].is_active
         THEN [gm |-> gm, member_id |-> 0, error |-> "already_active_member"]
         ELSE [gm |-> [gm EXCEPT ![existing].is_accpet = is_accpet],
               member_id |-> existing, error |-> ""]
    ELSE [gm |-> Append(gm, [group_id |-> group_id, user_id |-> user_id,
                             is_accpet |-> is_accpet,
                             is_active |-> DefaultIsActive]),
          member_id |-> Len(gm) + 1, error |-> ""]

\* add_group_member without the SELECT of the existing row: always INSERT
repo_add_group_member_always_insert(gm, group_id, user_id, is_accpet, fail) ==
    IF fail THEN [gm |-> gm, member_id |-> 0, error |-> "add_error"]
    ELSE [gm |-> Append(gm, [group_id |-> group_id, user_id |-> user_id,
                             is_accpet |-> is_accpet,
                             is_active |-> DefaultIsActive]),
          member_id |-> Len(gm) + 1, error |-> ""]

repo_add_group_member(gm, group_id, user_id, is_accpet, fail) ==
    LET existing == MemberIdOf(gm, group_id, user_id) IN
    IF fail THEN [gm |-> gm, member_id |-> 0, error |-> "add_error"]
    ELSE IF existing # 0
    THEN IF gm[existing].is_accpet /\ gm[existing].is_active
         THEN [gm |-> gm, member_id |-> 0, error |-> "already_active_member"]
         ELSE [gm |-> [gm EXCEPT ![existing].is_accpet = is_accpet,
                                 ![existing].is_active = TRUE],
               member_id |-> existing, error |-> ""]
    ELSE [gm |-> Append(gm, [group_id |-> group_id, user_id |-> user_id,
                             is_accpet |-> is_accpet,
                             is_active |-> DefaultIsActive]),
          member_id |-> Len(gm) + 1, error |-> ""]

\* The store has room for the row add_group_member may insert.
RoomForMember(group_id, user_id) ==
    MemberIdOf(group_member, group_id, user_id) # 0 \/ Len(group_member) < MaxMembers

\* ---- GroupRepository.update_group_member ----
repo_update_group_member(gm, member_id, is_accpet, is_active) ==
    LET a == IF is_accpet = {} THEN gm[member_id].is_accpet ELSE TRUE \in is_accpet
        b == IF is_active = {} THEN gm[member_id].is_active ELSE TRUE \in is_active
    IN  [gm EXCEPT ![member_id].is_accpet = a, ![member_id].is_active = b]

\* ---- GroupRepository.remove_group_member ----
repo_remove_group_member(gm, member_id) ==
    [gm EXCEPT ![member_id].is_active = FALSE]

\* SELECT ... FROM user WHERE user_id = u
get_user_by_id(u) == u \in Users /\ user[u].registered

\* SELECT ... FROM user WHERE email = e: the user id, 0 when nobody has e.
get_user_by_email(e) == IF e \in Users /\ user[e].registered THEN e ELSE 0

\* The address a user registered with.
EmailOf(u) == u

\* ---- GroupRepository.store_invitation ----
\* A deleted verification_token row.
NoToken ==
    [live |-> FALSE, token_type |-> "none", user_id |-> 0, group_id |-> 0, email |-> 0,
     invited_by |-> 0, expired |-> FALSE]

\* The row store_invitation inserts: token_type 'group_invitation', no user_id,
\* extra_data written from (group_id, email, invited_by).
InvitationToken(group_id, email, invited_by) ==
    [live |-> TRUE, token_type |-> "group_invitation", user_id |-> 0,
     group_id |-> group_id, email |-> email, invited_by |-> invited_by,
     expired |-> FALSE]

\* extra_data LIKE '%"group_id":g,"email":"<pattern>"%' against a stored row's
\* extra_data.  '_' in the pattern stands for any one character: the address
\* that belongs to nobody is spelled like address 1 with a '_' in place of
\* one of its letters, so as a pattern it matches both.
LikeMatches(pattern, email) ==
    pattern = email \/ (pattern = NumUsers + 1 /\ email = 1)

StoreFail == {"none", "no_db", "delete", "insert"}

\* store_invitation that does not delete the earlier invitations
repo_store_invitation_keep_old(vt, group_id, email, invited_by, fail) ==
    IF fail = "none"
    THEN [vt |-> Append(vt, InvitationToken(group_id, email, invited_by)),
          success |-> TRUE]
    ELSE [vt |-> vt, success |-> FALSE]

\* DELETE FROM verification_token WHERE token_type = 'group_invitation'
\*   AND extra_data LIKE '%"group_id":g,"email":"e"%'
delete_invitations(vt, group_id, email) ==
    [t \in 1..Len(vt) |->
        IF /\ vt[t].token_type = "group_invitation"
           /\ vt[t].group_id = group_id
           /\ LikeMatches(email, vt[t].email)
        THEN NoToken ELSE vt[t]]

\* The DELETE and the INSERT are two statements of an autocommit connection.
repo_store_invitation(vt, group_id, email, invited_by, fail) ==
    LET kept == delete_invitations(vt, group_id, email)
    IN  CASE fail = "none"   -> [vt |-> Append(kept, InvitationToken(group_id, email,
                                                                      invited_by)),
                                 success |-> TRUE]
          [] fail = "no_db"  -> [vt |-> vt, success |-> FALSE]
          [] fail = "delete" -> [vt |-> vt, success |-> FALSE]
          [] fail = "insert" -> [vt |-> kept, success |-> FALSE]

\* ---- GroupRepository.verify_invitation ----
\* What verify_invitation returns with an error.
NoInfo == [group_id |-> 0, email |-> 0, invited_by |-> 0]

\* verify_invitation that leaves an expired row in the table
repo_verify_invitation_keep_expired(vt, token) ==
    IF ~(token \in 1..Len(vt) /\ vt[token].token_type = "group_invitation")
    THEN [vt |-> vt, result |-> "invalid", info |-> NoInfo]
    ELSE IF vt[token].expired
    THEN [vt |-> vt, result |-> "expired", info |-> NoInfo]
    ELSE [vt |-> vt, result |-> "ok",
          info |-> [group_id |-> vt[token].group_id, email |-> vt[token].email,
                    invited_by |-> vt[token].invited_by]]

\* result: "invalid" (no such token), "expired" (the row is deleted), "ok"
\* (info is the row's extra_data: it was written from a group id, an address
\* the request schema accepted and a user id, and json.loads reads the same
\* three values back).
repo_verify_invitation(vt, token) ==
    IF ~(token \in 1..Len(vt) /\ vt[token].token_type = "group_invitation")
    THEN [vt |-> vt, result |-> "invalid", info |-> NoInfo]
    ELSE IF vt[token].expired
    THEN [vt |-> [vt EXCEPT ![token] = NoToken], result |-> "expired", info |-> NoInfo]
    ELSE [vt |-> vt, result |-> "ok",
          info |-> [group_id |-> vt[token].group_id, email |-> vt[token].email,
                    invited_by |-> vt[token].invited_by]]

\* ---- InvitationRepository.create_invitation ----
\* SELECT invitation_id, status ... WHERE group_id = g AND user_id = u
\*   AND status IN ('pending', 'accepted') (fetchone)
ExistingInvitation(gi, group_id, user_id) ==
    LET ids == {i \in 1..Len(gi) : /\ gi[i].group_id = group_id
                                   /\ gi[i].user_id = user_id
                                   /\ gi[i].status \in {"pending", "accepted"}}
    IN  IF ids = {} THEN 0 ELSE CHOOSE i \in ids : \A j \in ids : i <= j

repo_create_invitation(gi, group_id, user_id, invited_by) ==
    LET existing == ExistingInvitation(gi, group_id, user_id) IN
    IF existing # 0
    THEN IF gi[existing].status = "accepted"
         THEN [gi |-> gi, invitation_id |-> 0, error |-> "already_joined"]
         ELSE [gi |-> gi, invitation_id |-> existing, error |-> "already_invited"]
    ELSE [gi |-> Append(gi, [group_id |-> group_id, user_id |-> user_id,
                             invited_by |-> invited_by, status |-> "pending"]),
          invitation_id |-> Len(gi) + 1, error |-> ""]

\* The store has room for the row create_invitation may insert.
RoomForInvitation(group_id, user_id) ==
    ExistingInvitation(group_invitation, group_id, user_id) # 0
        \/ Len(group_invitation) < MaxInvitations

\* SELECT ... FROM group_invitation gi JOIN `group` ... WHERE gi.invitation_id = i
get_invitation_by_id(i) == i \in 1..Len(group_invitation)

\* ---- InvitationRepository.update_invitation_status ----
repo_update_invitation_status(gi, invitation_id, status) ==
    [gi EXCEPT ![invitation_id].status = status]

\* ---- routers ----
tables == <<user, groups, group_member, group_invitation, verification_token>>

\* raise HTTPException(code) before anything was written, or a plain answer
\* of a request that writes nothing.
Answer(op, caller, gid, id, code, msg) ==
    /\ last' = Response(op, caller, gid, id, code, msg, 0)
    /\ UNCHANGED tables

IsOwner(caller, group_id) == groups[group_id].owner_user_id = caller

\* POST /groups
create_group(caller) ==
    /\ Len(groups) < MaxGroups
    /\ Len(group_member) < MaxMembers
    /\ \E fail \in CreateFail :
        LET r == repo_create_group(DB, caller, fail) IN
        /\ user' = r.db.user
        /\ groups' = r.db.groups
        /\ group_member' = r.db.group_member
        /\ last' = IF r.group_id = 0
                   THEN Response("create_group", caller, 0, 0, 400, r.error, 0)
                   ELSE Response("create_group", caller, r.group_id, 0, 200, "", r.group_id)
    /\ UNCHANGED <<group_invitation, verification_token, api_key, observe, group_api_key, req>>

\* PUT /groups/{group_id}
update_group(caller, group_id) ==
    /\ IF ~get_group_by_id(group_id)
       THEN Answer("update_group", caller, group_id, 0, 404, "")
       ELSE IF ~IsOwner(caller, group_id)
       THEN Answer("update_group", caller, group_id, 0, 403, "")
       ELSE \E is_active \in OptBool :
            /\ groups' = repo_update_group(groups, group_id, is_active)
            /\ last' = Response("update_group", caller, group_id, 0, 200, "", 0)
            /\ UNCHANGED <<user, group_member, group_invitation, verification_token>>
    /\ UNCHANGED <<api_key, observe, group_api_key, req>>

\* DELETE /groups/{group_id}
delete_group(caller, group_id) ==
    /\ IF ~get_group_by_id(group_id)
       THEN Answer("delete_group", caller, group_id, 0, 404, "")
       ELSE IF ~IsOwner(caller, group_id)
       THEN Answer("delete_group", caller, group_id, 0, 403, "")
       ELSE \E fail \in DeleteFail :
            LET r == repo_delete_group(DB, group_id, fail) IN
            /\ user' = r.db.user
            /\ groups' = r.db.groups
            /\ group_member' = r.db.group_member
            /\ last' = IF r.success
                       THEN Response("delete_group", caller, group_id, 0, 200, "", 0)
                       ELSE Response("delete_group", caller, group_id, 0, 400, r.error, 0)
            /\ UNCHANGED <<group_invitation, verification_token>>
    /\ UNCHANGED <<api_key, observe, group_api_key, req>>

\* POST /groups/{group_id}/members
add_group_member(caller, group_id, user_id) ==
    /\ IF ~get_group_by_id(group_id)
       THEN Answer("add_group_member", caller, group_id, user_id, 404, "group")
       ELSE IF ~IsOwner(caller, group_id)
       THEN Answer("add_group_member", caller, group_id, user_id, 403, "")
       ELSE IF ~get_user_by_id(user_id)
       THEN Answer("add_group_member", caller, group_id, user_id, 404, "user")
       ELSE /\ RoomForMember(group_id, user_id)
            /\ \E fail \in BOOLEAN :
                LET r == repo_add_group_member(group_member, group_id, user_id, TRUE, fail) IN
                /\ group_member' = r.gm
                /\ last' = IF r.member_id = 0
                           THEN Response("add_group_member", caller, group_id, user_id, 400, r.error, 0)
                           ELSE Response("add_group_member", caller, group_id, user_id, 200, "", r.member_id)
            /\ UNCHANGED <<user, groups, group_invitation, verification_token>>
    /\ UNCHANGED <<api_key, observe, group_api_key, req>>

InGroup(member_id, group_id) ==
    get_member_info(member_id) /\ group_member[member_id].group_id = group_id

\* PUT /groups/{group_id}/members/{member_id}
update_group_member(caller, group_id, member_id) ==
    /\ IF ~get_group_by_id(group_id)
       THEN Answer("update_group_member", caller, group_id, member_id, 404, "group")
       ELSE IF ~IsOwner(caller, group_id)
       THEN Answer("update_group_member", caller, group_id, member_id, 403, "")
       ELSE IF ~InGroup(member_id, group_id)
       THEN Answer("update_group_member", caller, group_id, member_id, 404, "member")
       ELSE \E is_accpet \in OptBool, is_active \in OptBool :
            /\ group_member' = repo_update_group_member(group_member, member_id,
                                                        is_accpet, is_active)
            /\ last' = Response("update_group_member", caller, group_id, member_id, 200, "", 0)
            /\ UNCHANGED <<user, groups, group_invitation, verification_token>>
    /\ UNCHANGED <<api_key, observe, group_api_key, req>>

\* remove_group_member without the check that the target is the owner
remove_group_member_owner_too(caller, group_id, member_id) ==
    /\ IF ~get_group_by_id(group_id)
       THEN Answer("remove_group_member", caller, group_id, member_id, 404, "group")
       ELSE IF ~InGroup(member_id, group_id)
       THEN Answer("remove_group_member", caller, group_id, member_id, 404, "member")
       ELSE IF ~IsOwner(caller, group_id) /\ group_member[member_id].user_id # caller
       THEN Answer("remove_group_member", caller, group_id, member_id, 403, "")
       ELSE \/ \* the UPDATE fails
               Answer("remove_group_member", caller, group_id, member_id, 400, "remove_failed")
            \/ /\ group_member' = repo_remove_group_member(group_member, member_id)
               /\ last' = Response("remove_group_member", caller, group_id, member_id, 200, "", 0)
               /\ UNCHANGED <<user, groups, group_invitation, verification_token>>
    /\ UNCHANGED <<api_key, observe, group_api_key, req>>

\* DELETE /groups/{group_id}/members/{member_id}
remove_group_member(caller, group_id, member_id) ==
    /\ IF ~get_group_by_id(group_id)
       THEN Answer("remove_group_member", caller, group_id, member_id, 404, "group")
       ELSE IF ~InGroup(member_id, group_id)
       THEN Answer("remove_group_member", caller, group_id, member_id, 404, "member")
       ELSE IF ~IsOwner(caller, group_id) /\ group_member[member_id].user_id # caller
       THEN Answer("remove_group_member", caller, group_id, member_id, 403, "")
       ELSE IF group_member[member_id].user_id = groups[group_id].owner_user_id
       THEN Answer("remove_group_member", caller, group_id, member_id, 400, "owner")
       ELSE \/ \* the UPDATE fails
               Answer("remove_group_member", caller, group_id, member_id, 400, "remove_failed")
            \/ /\ group_member' = repo_remove_group_member(group_member, member_id)
               /\ last' = Response("remove_group_member", caller, group_id, member_id, 200, "", 0)
               /\ UNCHANGED <<user, groups, group_invitation, verification_token>>
    /\ UNCHANGED <<api_key, observe, group_api_key, req>>

\* GET /groups/{group_id}/pending-members
get_pending_members(caller, group_id) ==
    /\ IF ~get_group_by_id(group_id)
       THEN Answer("get_pending_members", caller, group_id, 0, 404, "")
       ELSE IF ~IsOwner(caller, group_id)
       THEN Answer("get_pending_members", caller, group_id, 0, 403, "")
       ELSE Answer("get_pending_members", caller, group_id, 0, 200, "")
    /\ UNCHANGED <<api_key, observe, group_api_key, req>>

\* approve_group_member without the check that the caller owns the group
approve_group_member_by_anyone(caller, group_id, member_id) ==
    /\ IF ~get_group_by_id(group_id)
       THEN Answer("approve_group_member", caller, group_id, member_id, 404, "group")
       ELSE IF ~InGroup(member_id, group_id)
       THEN Answer("approve_group_member", caller, group_id, member_id, 404, "member")
       ELSE IF group_member[member_id].is_accpet
       THEN Answer("approve_group_member", caller, group_id, member_id, 200, "already")
       ELSE /\ group_member' = repo_update_group_member(group_member, member_id,
                                                        {TRUE}, {TRUE})
            /\ last' = Response("approve_group_member", caller, group_id, member_id, 200, "", 0)
            /\ UNCHANGED <<user, groups, group_invitation, verification_token>>
    /\ UNCHANGED <<api_key, observe, group_api_key, req>>

\* POST /groups/{group_id}/members/{member_id}/approve
approve_group_member(caller, group_id, member_id) ==
    /\ IF ~get_group_by_id(group_id)
       THEN Answer("approve_group_member", caller, group_id, member_id, 404, "group")
       ELSE IF ~IsOwner(caller, group_id)
       THEN Answer("approve_group_member", caller, group_id, member_id, 403, "")
       ELSE IF ~InGroup(member_id, group_id)
       THEN Answer("approve_group_member", caller, group_id, member_id, 404, "member")
       ELSE IF group_member[member_id].is_accpet
       THEN Answer("approve_group_member", caller, group_id, member_id, 200, "already")
       ELSE /\ group_member' = repo_update_group_member(group_member, member_id,
                                                        {TRUE}, {TRUE})
            /\ last' = Response("approve_group_member", caller, group_id, member_id, 200, "", 0)
            /\ UNCHANGED <<user, groups, group_invitation, verification_token>>
    /\ UNCHANGED <<api_key, observe, group_api_key, req>>

\* POST /groups/{group_id}/invite
\* The mail is best effort and changes nothing stored.  room: the number of
\* rows verification_token holds before the store is full.
invite_to_group_with_room(caller, group_id, email, room) ==
    /\ IF ~get_group_by_id(group_id)
       THEN Answer("invite_to_group", caller, group_id, 0, 404, "")
       ELSE IF ~IsOwner(caller, group_id)
       THEN Answer("invite_to_group", caller, group_id, 0, 403, "")
       ELSE LET existing_user == get_user_by_email(email)
                existing_member == IF existing_user = 0 THEN 0
                                   ELSE get_member_by_user_and_group(existing_user, group_id)
            IN
            IF /\ existing_member # 0
               /\ group_member[existing_member].is_accpet
               /\ group_member[existing_member].is_active
            THEN Answer("invite_to_group", caller, group_id, 0, 400, "already_active_member")
            ELSE \E fail \in StoreFail :
                 LET r == repo_store_invitation(verification_token, group_id, email,
                                                caller, fail) IN
                 /\ verification_token' = r.vt
                 /\ IF ~r.success
                    THEN /\ last' = Response("invite_to_group", caller, group_id, 0,
                                             500, "store_failed", 0)
                         /\ UNCHANGED <<user, groups, group_member, group_invitation>>
                    ELSE /\ Len(verification_token) < room
                         /\ existing_user # 0 => RoomForMember(group_id, existing_user)
                         /\ \E add_fail \in BOOLEAN :
                             group_member' =
                                 IF existing_user # 0
                                 THEN repo_add_group_member(group_member, group_id,
                                                            existing_user, FALSE, add_fail).gm
                                 ELSE group_member
                         /\ last' = Response("invite_to_group", caller, group_id, 0,
                                             200, "", 0)
                         /\ UNCHANGED <<user, groups, group_invitation>>
    /\ UNCHANGED <<api_key, observe, group_api_key, req>>

invite_to_group(caller, group_id, email) ==
    invite_to_group_with_room(caller, group_id, email, MaxTokens)

\* accept_group_invitation without the comparison of the e-mail addresses
accept_group_invitation_any_email(caller, token) ==
    /\ LET v == repo_verify_invitation(verification_token, token) IN
       IF v.result # "ok"
       THEN /\ verification_token' = v.vt
            /\ last' = Response("accept_group_invitation", caller, 0, 0, 400, v.result, 0)
            /\ UNCHANGED <<user, groups, group_member, group_invitation>>
       ELSE LET group_id == v.info.group_id
                existing_member == get_member_by_user_and_group(caller, group_id)
            IN
            IF ~get_group_by_id(group_id)
            THEN Answer("accept_group_invitation", caller, group_id, 0, 404, "")
            ELSE \/ \* the UPDATE or the INSERT fails
                    Answer("accept_group_invitation", caller, group_id, 0, 400,
                           "join_failed")
                 \/ /\ RoomForMember(group_id, caller)
                    /\ group_member' =
                           IF existing_member # 0
                           THEN repo_update_group_member(group_member, existing_member,
                                                         {TRUE}, {TRUE})
                           ELSE repo_add_group_member(group_member, group_id, caller,
                                                      TRUE, FALSE).gm
                    /\ last' = Response("accept_group_invitation", caller, group_id, 0,
                                        200, "", 0)
                    /\ UNCHANGED <<user, groups, group_invitation, verification_token>>
    /\ UNCHANGED <<api_key, observe, group_api_key, req>>

\* POST /groups/accept-invitation
accept_group_invitation(caller, token) ==
    /\ LET v == repo_verify_invitation(verification_token, token) IN
       IF v.result # "ok"
       THEN /\ verification_token' = v.vt
            /\ last' = Response("accept_group_invitation", caller, 0, 0, 400, v.result, 0)
            /\ UNCHANGED <<user, groups, group_member, group_invitation>>
       ELSE IF v.info.email # EmailOf(caller)
       THEN Answer("accept_group_invitation", caller, 0, 0, 403, "")
       ELSE LET group_id == v.info.group_id
                existing_member == get_member_by_user_and_group(caller, group_id)
            IN
            IF ~get_group_by_id(group_id)
            THEN Answer("accept_group_invitation", caller, group_id, 0, 404, "")
            ELSE \/ \* the UPDATE or the INSERT fails
                    Answer("accept_group_invitation", caller, group_id, 0, 400,
                           "join_failed")
                 \/ /\ RoomForMember(group_id, caller)
                    /\ group_member' =
                           IF existing_member # 0
                           THEN repo_update_group_member(group_member, existing_member,
                                                         {TRUE}, {TRUE})
                           ELSE repo_add_group_member(group_member, group_id, caller,
                                                      TRUE, FALSE).gm
                    /\ last' = Response("accept_group_invitation", caller, group_id, 0,
                                        200, "", 0)
                    /\ UNCHANGED <<user, groups, group_invitation, verification_token>>
    /\ UNCHANGED <<api_key, observe, group_api_key, req>>

\* The clock passes the expires_at of a stored token.
token_expires(token) ==
    /\ token \in 1..Len(verification_token)
    /\ verification_token[token].live
    /\ ~verification_token[token].expired
    /\ verification_token' = [verification_token EXCEPT ![token].expired = TRUE]
    /\ UNCHANGED <<user, groups, group_member, group_invitation, last, api_key, observe, group_api_key, req>>

\* invite_user_to_group without the check for an existing active member
invite_user_to_group_no_member_check(caller, group_id, user_id) ==
    /\ IF ~get_group_by_id(group_id)
       THEN Answer("invite_user_to_group", caller, group_id, 0, 404, "group")
       ELSE IF ~IsOwner(caller, group_id)
       THEN Answer("invite_user_to_group", caller, group_id, 0, 403, "")
       ELSE IF ~get_user_by_id(user_id)
       THEN Answer("invite_user_to_group", caller, group_id, 0, 404, "user")
       ELSE IF user_id = caller
       THEN Answer("invite_user_to_group", caller, group_id, 0, 400, "self")
       ELSE \/ Answer("invite_user_to_group", caller, group_id, 0, 400,
                      "create_failed")
            \/ /\ RoomForInvitation(group_id, user_id)
               /\ LET r == repo_create_invitation(group_invitation, group_id,
                                                  user_id, caller) IN
                   /\ group_invitation' = r.gi
                   /\ last' = IF r.invitation_id = 0
                              THEN Response("invite_user_to_group", caller, group_id,
                                            0, 400, r.error, 0)
                              ELSE Response("invite_user_to_group", caller, group_id,
                                            0, 200, "invited", r.invitation_id)
               /\ UNCHANGED <<user, groups, group_member, verification_token>>
    /\ UNCHANGED <<api_key, observe, group_api_key, req>>

\* POST /groups/{group_id}/invite-user
invite_user_to_group(caller, group_id, user_id) ==
    /\ IF ~get_group_by_id(group_id)
       THEN Answer("invite_user_to_group", caller, group_id, 0, 404, "group")
       ELSE IF ~IsOwner(caller, group_id)
       THEN Answer("invite_user_to_group", caller, group_id, 0, 403, "")
       ELSE IF ~get_user_by_id(user_id)
       THEN Answer("invite_user_to_group", caller, group_id, 0, 404, "user")
       ELSE IF user_id = caller
       THEN Answer("invite_user_to_group", caller, group_id, 0, 400, "self")
       ELSE LET existing_member == get_member_by_user_and_group(user_id, group_id) IN
            IF /\ existing_member # 0
               /\ group_member[existing_member].is_accpet
               /\ group_member[existing_member].is_active
            THEN Answer("invite_user_to_group", caller, group_id, 0, 400,
                        "already_active_member")
            ELSE \/ \* create_invitation fails
                    Answer("invite_user_to_group", caller, group_id, 0, 400,
                           "create_failed")
                 \/ /\ RoomForInvitation(group_id, user_id)
                    /\ LET r == repo_create_invitation(group_invitation, group_id,
                                                       user_id, caller) IN
                        /\ group_invitation' = r.gi
                        /\ last' = IF r.invitation_id = 0
                                   THEN Response("invite_user_to_group", caller, group_id,
                                                 0, 400, r.error, 0)
                                   ELSE Response("invite_user_to_group", caller, group_id,
                                                 0, 200, "invited", r.invitation_id)
                    /\ UNCHANGED <<user, groups, group_member, verification_token>>
    /\ UNCHANGED <<api_key, observe, group_api_key, req>>

\* GET /groups/{group_id}/invitations
get_group_invitations(caller, group_id) ==
    /\ IF ~get_group_by_id(group_id)
       THEN Answer("get_group_invitations", caller, group_id, 0, 404, "")
       ELSE IF ~IsOwner(caller, group_id)
       THEN Answer("get_group_invitations", caller, group_id, 0, 403, "")
       ELSE Answer("get_group_invitations", caller, group_id, 0, 200, "")
    /\ UNCHANGED <<api_key, observe, group_api_key, req>>

\* accept_invitation without the check of the invitation's status
accept_invitation_any_status(caller, invitation_id) ==
    /\ IF ~get_invitation_by_id(invitation_id)
       THEN Answer("accept_invitation", caller, 0, invitation_id, 404, "")
       ELSE LET invitation == group_invitation[invitation_id] IN
            IF invitation.user_id # caller
            THEN Answer("accept_invitation", caller, invitation.group_id, invitation_id, 403, "")
            ELSE /\ group_invitation' =
                        repo_update_invitation_status(group_invitation, invitation_id,
                                                      "accepted")
                 /\ RoomForMember(invitation.group_id, caller)
                 /\ LET r == repo_add_group_member(group_member, invitation.group_id,
                                                   caller, TRUE, FALSE) IN
                     /\ group_member' = r.gm
                     /\ last' = IF r.member_id = 0
                                THEN Response("accept_invitation", caller,
                                              invitation.group_id, invitation_id,
                                              500, r.error, 0)
                                ELSE Response("accept_invitation", caller,
                                              invitation.group_id, invitation_id,
                                              200, "accepted", 0)
                 /\ UNCHANGED <<user, groups, verification_token>>
    /\ UNCHANGED <<api_key, observe, group_api_key, req>>

\* POST /invitations/{invitation_id}/accept
\* update_invitation_status and add_group_member are two statements of an
\* autocommit connection: the first stays written when the second fails.
accept_invitation(caller, invitation_id) ==
    /\ IF ~get_invitation_by_id(invitation_id)
       THEN Answer("accept_invitation", caller, 0, invitation_id, 404, "")
       ELSE LET invitation == group_invitation[invitation_id] IN
            IF invitation.user_id # caller
            THEN Answer("accept_invitation", caller, invitation.group_id, invitation_id, 403, "")
            ELSE IF invitation.status # "pending"
            THEN IF invitation.status = "accepted"
                 THEN Answer("accept_invitation", caller, invitation.group_id,
                             invitation_id, 200, "already_accepted")
                 ELSE Answer("accept_invitation", caller, invitation.group_id,
                             invitation_id, 400, invitation.status)
            ELSE \/ \* update_invitation_status fails
                    Answer("accept_invitation", caller, invitation.group_id,
                           invitation_id, 500, "status_update_failed")
                 \/ /\ group_invitation' =
                           repo_update_invitation_status(group_invitation, invitation_id,
                                                         "accepted")
                    /\ RoomForMember(invitation.group_id, caller)
                    /\ \E fail \in BOOLEAN :
                        LET r == repo_add_group_member(group_member, invitation.group_id,
                                                       caller, TRUE, fail) IN
                        /\ group_member' = r.gm
                        /\ last' = IF r.member_id = 0
                                   THEN Response("accept_invitation", caller,
                                                 invitation.group_id, invitation_id,
                                                 500, r.error, 0)
                                   ELSE Response("accept_invitation", caller,
                                                 invitation.group_id, invitation_id,
                                                 200, "accepted", 0)
                    /\ UNCHANGED <<user, groups, verification_token>>
    /\ UNCHANGED <<api_key, observe, group_api_key, req>>

\* decline_invitation without the 'already declined' short-circuit
decline_invitation_no_short_circuit(caller, invitation_id) ==
    /\ IF ~get_invitation_by_id(invitation_id)
       THEN Answer("decline_invitation", caller, 0, invitation_id, 404, "")
       ELSE LET invitation == group_invitation[invitation_id] IN
            IF invitation.user_id # caller
            THEN Answer("decline_invitation", caller, invitation.group_id, invitation_id, 403, "")
            ELSE IF invitation.status # "pending"
            THEN Answer("decline_invitation", caller, invitation.group_id,
                        invitation_id, 400, invitation.status)
            ELSE \/ Answer("decline_invitation", caller, invitation.group_id,
                           invitation_id, 500, "status_update_failed")
                 \/ /\ group_invitation' =
                           repo_update_invitation_status(group_invitation, invitation_id,
                                                         "declined")
                    /\ last' = Response("decline_invitation", caller, invitation.group_id,
                                        invitation_id, 200, "declined", 0)
                    /\ UNCHANGED <<user, groups, group_member, verification_token>>
    /\ UNCHANGED <<api_key, observe, group_api_key, req>>

\* POST /invitations/{invitation_id}/decline
decline_invitation(caller, invitation_id) ==
    /\ IF ~get_invitation_by_id(invitation_id)
       THEN Answer("decline_invitation", caller, 0, invitation_id, 404, "")
       ELSE LET invitation == group_invitation[invitation_id] IN
            IF invitation.user_id # caller
            THEN Answer("decline_invitation", caller, invitation.group_id, invitation_id, 403, "")
            ELSE IF invitation.status # "pending"
            THEN IF invitation.status = "declined"
                 THEN Answer("decline_invitation", caller, invitation.group_id,
                             invitation_id, 200, "already_declined")
                 ELSE Answer("decline_invitation", caller, invitation.group_id,
                             invitation_id, 400, invitation.status)
            ELSE \/ Answer("decline_invitation", caller, invitation.group_id,
                           invitation_id, 500, "status_update_failed")
                 \/ /\ group_invitation' =
                           repo_update_invitation_status(group_invitation, invitation_id,
                                                         "declined")
                    /\ last' = Response("decline_invitation", caller, invitation.group_id,
                                        invitation_id, 200, "declined", 0)
                    /\ UNCHANGED <<user, groups, group_member, verification_token>>
    /\ UNCHANGED <<api_key, observe, group_api_key, req>>

\* cancel_invitation that lets the invitee cancel
cancel_invitation_by_invitee(caller, invitation_id) ==
    /\ IF ~get_invitation_by_id(invitation_id)
       THEN Answer("cancel_invitation", caller, 0, invitation_id, 404, "")
       ELSE LET invitation == group_invitation[invitation_id] IN
            IF invitation.invited_by # caller /\ invitation.user_id # caller
            THEN Answer("cancel_invitation", caller, invitation.group_id, invitation_id, 403, "")
            ELSE IF invitation.status # "pending"
            THEN Answer("cancel_invitation", caller, invitation.group_id,
                        invitation_id, 400, invitation.status)
            ELSE /\ group_invitation' =
                        repo_update_invitation_status(group_invitation, invitation_id,
                                                      "canceled")
                 /\ last' = Response("cancel_invitation", caller, invitation.group_id,
                                     invitation_id, 200, "canceled", 0)
                 /\ UNCHANGED <<user, groups, group_member, verification_token>>
    /\ UNCHANGED <<api_key, observe, group_api_key, req>>

\* POST /invitations/{invitation_id}/cancel
cancel_invitation(caller, invitation_id) ==
    /\ IF ~get_invitation_by_id(invitation_id)
       THEN Answer("cancel_invitation", caller, 0, invitation_id, 404, "")
       ELSE LET invitation == group_invitation[invitation_id] IN
            IF invitation.invited_by # caller
            THEN Answer("cancel_invitation", caller, invitation.group_id, invitation_id, 403, "")
            ELSE IF invitation.status # "pending"
            THEN IF invitation.status = "canceled"
                 THEN Answer("cancel_invitation", caller, invitation.group_id,
                             invitation_id, 200, "already_canceled")
                 ELSE Answer("cancel_invitation", caller, invitation.group_id,
                             invitation_id, 400, invitation.status)
            ELSE \/ Answer("cancel_invitation", caller, invitation.group_id,
                           invitation_id, 500, "status_update_failed")
                 \/ /\ group_invitation' =
                           repo_update_invitation_status(group_invitation, invitation_id,
                                                         "canceled")
                    /\ last' = Response("cancel_invitation", caller, invitation.group_id,
                                        invitation_id, 200, "canceled", 0)
                    /\ UNCHANGED <<user, groups, group_member, verification_token>>
    /\ UNCHANGED <<api_key, observe, group_api_key, req>>

\* ---- overlapping invitation requests ----
\* A handler in flight keeps what it read: the invitation row it fetched and
\* the membership row add_group_member selected.
Idle ==
    [pc |-> "idle", caller |-> 0, invitation_id |-> 0, group_id |-> 0, existing |-> 0,
     user_id |-> 0, email |-> 0]

\* get_invitation_by_id and the checks before the first write of accept,
\* decline (who = the row's user_id) and cancel (who = the row's invited_by).
invitation_begin(p, op, caller, invitation_id, who, same, next_pc) ==
    /\ req[p].pc = "idle"
    /\ IF ~get_invitation_by_id(invitation_id)
       THEN Answer(op, caller, 0, invitation_id, 404, "") /\ UNCHANGED req
       ELSE LET invitation == group_invitation[invitation_id] IN
            IF invitation[who] # caller
            THEN Answer(op, caller, invitation.group_id, invitation_id, 403, "")
                 /\ UNCHANGED req
            ELSE IF invitation.status # "pending"
            THEN /\ IF invitation.status = same
                    THEN Answer(op, caller, invitation.group_id, invitation_id, 200, "already")
                    ELSE Answer(op, caller, invitation.group_id, invitation_id, 400,
                                invitation.status)
                 /\ UNCHANGED req
            ELSE /\ req' = [req EXCEPT ![p] = [pc |-> next_pc, caller |-> caller,
                                               invitation_id |-> invitation_id,
                                               group_id |-> invitation.group_id,
                                               existing |-> 0, user_id |-> caller,
                                               email |-> 0]]
                 /\ UNCHANGED <<tables, last>>
    /\ UNCHANGED <<api_key, observe, group_api_key>>

accept_begin(p, caller, invitation_id) ==
    invitation_begin(p, "accept_invitation", caller, invitation_id, "user_id",
                     "accepted", "accept_update_status")

decline_begin(p, caller, invitation_id) ==
    invitation_begin(p, "decline_invitation", caller, invitation_id, "user_id",
                     "declined", "decline_update_status")

cancel_begin(p, caller, invitation_id) ==
    invitation_begin(p, "cancel_invitation", caller, invitation_id, "invited_by",
                     "canceled", "cancel_update_status")

\* await invitation_repo.update_invitation_status(invitation_id, status)
update_status_step(p, op, status, next_pc) ==
    /\ req[p].pc = op
    /\ \/ /\ last' = Response(op, req[p].caller, req[p].group_id, req[p].invitation_id,
                              500, "status_update_failed", 0)
          /\ req' = [req EXCEPT ![p] = Idle]
          /\ UNCHANGED tables
       \/ /\ group_invitation' = repo_update_invitation_status(group_invitation,
                                                               req[p].invitation_id, status)
          /\ req' = [req EXCEPT ![p] = IF next_pc = "idle" THEN Idle
                                       ELSE [@ EXCEPT !.pc = next_pc]]
          /\ last' = IF next_pc = "idle"
                     THEN Response(op, req[p].caller, req[p].group_id,
                                   req[p].invitation_id, 200, status, 0)
                     ELSE last
          /\ UNCHANGED <<user, groups, group_member, verification_token>>
    /\ UNCHANGED <<api_key, observe, group_api_key>>

accept_update_status(p) ==
    update_status_step(p, "accept_update_status", "accepted", "accept_check_member")

decline_update_status(p) ==
    update_status_step(p, "decline_update_status", "declined", "idle")

cancel_update_status(p) ==
    update_status_step(p, "cancel_update_status", "canceled", "idle")

\* The store has room for a row a request in flight inserts: every request
\* that overlaps another may insert a row the other did not see.
RoomForRacingMember == Len(group_member) < MaxMembers + NumProcs - 1

\* add_group_member: the SELECT of the existing membership row
accept_check_member(p) ==
    /\ req[p].pc = "accept_check_member"
    /\ LET existing == get_member_by_user_and_group(req[p].caller, req[p].group_id) IN
       IF existing # 0 /\ group_member[existing].is_accpet /\ group_member[existing].is_active
       THEN /\ last' = Response("accept_invitation", req[p].caller, req[p].group_id,
                                req[p].invitation_id, 500, "already_active_member", 0)
            /\ req' = [req EXCEPT ![p] = Idle]
       ELSE /\ req' = [req EXCEPT ![p].pc = "accept_write_member",
                                  ![p].existing = existing]
            /\ UNCHANGED last
    /\ UNCHANGED <<tables, api_key, observe, group_api_key>>

\* add_group_member: the UPDATE of the row selected, or the INSERT
accept_write_member(p) ==
    /\ req[p].pc = "accept_write_member"
    /\ \/ /\ last' = Response("accept_invitation", req[p].caller, req[p].group_id,
                              req[p].invitation_id, 500, "add_error", 0)
          /\ UNCHANGED group_member
       \/ /\ req[p].existing = 0 => RoomForRacingMember
          /\ group_member' =
                IF req[p].existing # 0
                THEN [group_member EXCEPT ![req[p].existing].is_accpet = TRUE,
                                          ![req[p].existing].is_active = TRUE]
                ELSE Append(group_member, [group_id |-> req[p].group_id,
                                           user_id |-> req[p].caller,
                                           is_accpet |-> TRUE,
                                           is_active |-> DefaultIsActive])
          /\ last' = Response("accept_invitation", req[p].caller, req[p].group_id,
                              req[p].invitation_id, 200, "accepted", 0)
    /\ req' = [req EXCEPT ![p] = Idle]
    /\ UNCHANGED <<user, groups, group_invitation, verification_token, api_key, observe, group_api_key>>

\* ---- overlapping requests that add a member ----
\* POST /groups/{group_id}/members up to the call of add_group_member
add_begin(p, caller, group_id, user_id) ==
    /\ req[p].pc = "idle"
    /\ IF ~get_group_by_id(group_id)
       THEN Answer("add_group_member", caller, group_id, user_id, 404, "group")
            /\ UNCHANGED req
       ELSE IF ~IsOwner(caller, group_id)
       THEN Answer("add_group_member", caller, group_id, user_id, 403, "")
            /\ UNCHANGED req
       ELSE IF ~get_user_by_id(user_id)
       THEN Answer("add_group_member", caller, group_id, user_id, 404, "user")
            /\ UNCHANGED req
       ELSE /\ req' = [req EXCEPT ![p] = [pc |-> "add_check_member", caller |-> caller,
                                          invitation_id |-> 0, group_id |-> group_id,
                                          existing |-> 0, user_id |-> user_id,
                                          email |-> 0]]
            /\ UNCHANGED <<tables, last>>
    /\ UNCHANGED <<api_key, observe, group_api_key>>

\* POST /groups/accept-invitation up to the read of the caller's membership
\* row: the token is verified, the addresses are compared, the group is read.
join_begin(p, caller, token) ==
    /\ req[p].pc = "idle"
    /\ LET v == repo_verify_invitation(verification_token, token) IN
       IF v.result # "ok"
       THEN /\ verification_token' = v.vt
            /\ last' = Response("accept_group_invitation", caller, 0, 0, 400, v.result, 0)
            /\ UNCHANGED <<user, groups, group_member, group_invitation, req>>
       ELSE IF v.info.email # EmailOf(caller)
       THEN Answer("accept_group_invitation", caller, 0, 0, 403, "") /\ UNCHANGED req
       ELSE IF ~get_group_by_id(v.info.group_id)
       THEN Answer("accept_group_invitation", caller, v.info.group_id, 0, 404, "")
            /\ UNCHANGED req
       ELSE LET existing_member == get_member_by_user_and_group(caller, v.info.group_id)
            IN
            /\ req' = [req EXCEPT ![p] =
                          [pc |-> IF existing_member # 0 THEN "join_update_member"
                                  ELSE "join_check_member",
                           caller |-> caller, invitation_id |-> 0,
                           group_id |-> v.info.group_id,
                           existing |-> existing_member, user_id |-> caller,
                           email |-> 0]]
            /\ UNCHANGED <<tables, last>>
    /\ UNCHANGED <<api_key, observe, group_api_key>>

\* accept_group_invitation: update_group_member of the row it read
join_update_member(p) ==
    /\ req[p].pc = "join_update_member"
    /\ \/ /\ last' = Response("accept_group_invitation", req[p].caller, req[p].group_id,
                              0, 400, "join_failed", 0)
          /\ UNCHANGED group_member
       \/ /\ group_member' = repo_update_group_member(group_member, req[p].existing,
                                                       {TRUE}, {TRUE})
          /\ last' = Response("accept_group_invitation", req[p].caller, req[p].group_id,
                              0, 200, "", 0)
    /\ req' = [req EXCEPT ![p] = Idle]
    /\ UNCHANGED <<user, groups, group_invitation, verification_token, api_key, observe, group_api_key>>

\* add_group_member: the SELECT of the existing membership row
check_member_step(p, pc, op, next_pc) ==
    /\ req[p].pc = pc
    /\ LET existing == get_member_by_user_and_group(req[p].user_id, req[p].group_id) IN
       IF existing # 0 /\ group_member[existing].is_accpet /\ group_member[existing].is_active
       THEN /\ last' = Response(op, req[p].caller, req[p].group_id, req[p].user_id, 400,
                                "already_active_member", 0)
            /\ req' = [req EXCEPT ![p] = Idle]
       ELSE /\ req' = [req EXCEPT ![p].pc = next_pc, ![p].existing = existing]
            /\ UNCHANGED last
    /\ UNCHANGED <<tables, api_key, observe, group_api_key>>

\* add_group_member: the UPDATE of the row selected, or the INSERT
write_member_step(p, pc, op) ==
    /\ req[p].pc = pc
    /\ \/ /\ last' = Response(op, req[p].caller, req[p].group_id, req[p].user_id, 400,
                              "add_error", 0)
          /\ UNCHANGED group_member
       \/ /\ req[p].existing = 0 => RoomForRacingMember
          /\ group_member' =
                IF req[p].existing # 0
                THEN [group_member EXCEPT ![req[p].existing].is_accpet = TRUE,
                                          ![req[p].existing].is_active = TRUE]
                ELSE Append(group_member, [group_id |-> req[p].group_id,
                                           user_id |-> req[p].user_id,
                                           is_accpet |-> TRUE,
                                           is_active |-> DefaultIsActive])
          /\ last' = Response(op, req[p].caller, req[p].group_id, req[p].user_id, 200, "",
                              IF req[p].existing # 0 THEN req[p].existing
                              ELSE Len(group_member) + 1)
    /\ req' = [req EXCEPT ![p] = Idle]
    /\ UNCHANGED <<user, groups, group_invitation, verification_token, api_key, observe, group_api_key>>

add_check_member(p) ==
    check_member_step(p, "add_check_member", "add_group_member", "add_write_member")

add_write_member(p) == write_member_step(p, "add_write_member", "add_group_member")

join_check_member(p) ==
    check_member_step(p, "join_check_member", "accept_group_invitation",
                      "join_write_member")

join_write_member(p) ==
    write_member_step(p, "join_write_member", "accept_group_invitation")

\* ---- specifications ----
InitTables ==
    /\ user = [u \in Users |-> RegisteredUser]
    /\ groups = <<>>
    /\ group_member = <<>>
    /\ group_invitation = <<>>
    /\ verification_token = <<>>
    /\ api_key = <<>>
    /\ group_api_key = <<>>
    /\ last = NoResponse

\* Requests served one at a time, responses recorded: the membership store.
Init == InitTables /\ observe = TRUE /\ req = [p \in Procs |-> Idle]

Next ==
    \/ \E c \in Users : create_group(c)
    \/ \E c \in Users, g \in GroupIds : update_group(c, g)
    \/ \E c \in Users, g \in GroupIds : delete_group(c, g)
    \/ \E c \in Users, g \in GroupIds, u \in UserIds : add_group_member(c, g, u)
    \/ \E c \in Users, g \in GroupIds, m \in MemberIds : update_group_member(c, g, m)
    \/ \E c \in Users, g \in GroupIds, m \in MemberIds : remove_group_member(c, g, m)
    \/ \E c \in Users, g \in GroupIds, m \in MemberIds : approve_group_member(c, g, m)
    \/ \E c \in Users, g \in GroupIds : get_pending_members(c, g)

Spec == Init /\ [][Next]_vars

\* The same with the owner's other requests: the two invitation paths and
\* the invitation list.
NextOwner ==
    \/ Next
    \/ \E c \in Users, g \in GroupIds : get_group_invitations(c, g)
    \/ \E c \in Users, g \in GroupIds, e \in Emails : invite_to_group(c, g, e)
    \/ \E c \in Users, g \in GroupIds, u \in UserIds : invite_user_to_group(c, g, u)

SpecOwner == Init /\ [][NextOwner]_vars

\* Requests served one at a time, responses recorded: the invitation state
\* machine on top of group creation and member removal.
NextInvitation ==
    \/ \E c \in Users : create_group(c)
    \/ \E c \in Users, g \in GroupIds, m \in MemberIds : remove_group_member(c, g, m)
    \/ \E c \in Users, g \in GroupIds, u \in UserIds : invite_user_to_group(c, g, u)
    \/ \E c \in Users, i \in InvitationIds : accept_invitation(c, i)
    \/ \E c \in Users, i \in InvitationIds : decline_invitation(c, i)
    \/ \E c \in Users, i \in InvitationIds : cancel_invitation(c, i)

SpecInvitation == Init /\ [][NextInvitation]_vars

\* Every request, served one at a time, responses not recorded.
InitAll == InitTables /\ observe = FALSE /\ req = [p \in Procs |-> Idle]

NextAll ==
    \/ NextOwner
    \/ \E c \in Users, t \in Tokens : accept_group_invitation(c, t)
    \/ \E t \in Tokens : token_expires(t)
    \/ \E c \in Users, i \in InvitationIds : accept_invitation(c, i)
    \/ \E c \in Users, i \in InvitationIds : decline_invitation(c, i)
    \/ \E c \in Users, i \in InvitationIds : cancel_invitation(c, i)

SpecAll == InitAll /\ [][NextAll]_vars

\* Overlapping accept, decline and cancel requests: each request is a
\* coroutine that may be suspended at every awaited statement.
NextConc ==
    \/ \E c \in Users : create_group(c)
    \/ \E c \in Users, g \in GroupIds, u \in UserIds : invite_user_to_group(c, g, u)
    \/ \E p \in Procs, c \in Users, i \in InvitationIds :
          \/ accept_begin(p, c, i)
          \/ decline_begin(p, c, i)
          \/ cancel_begin(p, c, i)
    \/ \E p \in Procs :
          \/ accept_update_status(p)
          \/ accept_check_member(p)
          \/ accept_write_member(p)
          \/ decline_update_status(p)
          \/ cancel_update_status(p)

SpecConc == InitAll /\ [][NextConc]_vars

\* Overlapping requests that materialise a membership: direct adds, accepts of
\* a registered-user invitation and accepts of an e-mail invitation, each a
\* coroutine that may be suspended between the SELECT and the write of
\* add_group_member.
NextRace ==
    \/ \E c \in Users : create_group(c)
    \/ \E c \in Users, g \in GroupIds, u \in UserIds : invite_user_to_group(c, g, u)
    \/ \E c \in Users, g \in GroupIds, e \in Emails : invite_to_group(c, g, e)
    \/ \E p \in Procs, c \in Users, i \in InvitationIds : accept_begin(p, c, i)
    \/ \E p \in Procs, c \in Users, g \in GroupIds, u \in UserIds : add_begin(p, c, g, u)
    \/ \E p \in Procs, c \in Users, t \in Tokens : join_begin(p, c, t)
    \/ \E p \in Procs :
          \/ accept_update_status(p)
          \/ accept_check_member(p)
          \/ accept_write_member(p)
          \/ add_check_member(p)
          \/ add_write_member(p)
          \/ join_update_member(p)
          \/ join_check_member(p)
          \/ join_write_member(p)

SpecRace == InitAll /\ [][NextRace]_vars

\* ---- overlapping requests that invite ----
\* POST /groups/{group_id}/invite-user up to the SELECT of create_invitation:
\* the group, the owner, the user and the membership are read, then the
\* pending or accepted invitation of the pair.
invite_user_begin(p, caller, group_id, user_id) ==
    /\ req[p].pc = "idle"
    /\ IF ~get_group_by_id(group_id)
       THEN Answer("invite_user_to_group", caller, group_id, 0, 404, "group")
            /\ UNCHANGED req
       ELSE IF ~IsOwner(caller, group_id)
       THEN Answer("invite_user_to_group", caller, group_id, 0, 403, "")
            /\ UNCHANGED req
       ELSE IF ~get_user_by_id(user_id)
       THEN Answer("invite_user_to_group", caller, group_id, 0, 404, "user")
            /\ UNCHANGED req
       ELSE IF user_id = caller
       THEN Answer("invite_user_to_group", caller, group_id, 0, 400, "self")
            /\ UNCHANGED req
       ELSE LET existing_member == get_member_by_user_and_group(user_id, group_id)
                existing == ExistingInvitation(group_invitation, group_id, user_id)
            IN
            IF /\ existing_member # 0
               /\ group_member[existing_member].is_accpet
               /\ group_member[existing_member].is_active
            THEN Answer("invite_user_to_group", caller, group_id, 0, 400,
                        "already_active_member") /\ UNCHANGED req
            ELSE IF existing # 0
            THEN /\ IF group_invitation[existing].status = "accepted"
                    THEN Answer("invite_user_to_group", caller, group_id, 0, 400,
                                "already_joined")
                    ELSE /\ last' = Response("invite_user_to_group", caller, group_id,
                                             0, 200, "invited", existing)
                         /\ UNCHANGED tables
                 /\ UNCHANGED req
            ELSE /\ req' = [req EXCEPT ![p] = [Idle EXCEPT !.pc = "invite_user_insert",
                                                           !.caller = caller,
                                                           !.group_id = group_id,
                                                           !.user_id = user_id]]
                 /\ UNCHANGED <<tables, last>>
    /\ UNCHANGED <<api_key, observe, group_api_key>>

\* create_invitation: the INSERT that follows a SELECT which found no row
invite_user_insert(p) ==
    /\ req[p].pc = "invite_user_insert"
    /\ \/ /\ last' = Response("invite_user_to_group", req[p].caller, req[p].group_id, 0,
                              400, "create_failed", 0)
          /\ UNCHANGED tables
       \/ /\ Len(group_invitation) < MaxInvitations
          /\ group_invitation' = Append(group_invitation,
                                        [group_id |-> req[p].group_id,
                                         user_id |-> req[p].user_id,
                                         invited_by |-> req[p].caller,
                                         status |-> "pending"])
          /\ last' = Response("invite_user_to_group", req[p].caller, req[p].group_id, 0,
                              200, "invited", Len(group_invitation) + 1)
          /\ UNCHANGED <<user, groups, group_member, verification_token>>
    /\ req' = [req EXCEPT ![p] = Idle]
    /\ UNCHANGED <<api_key, observe, group_api_key>>

\* The token store holds one row more for each further request in flight.
RoomForRacingToken == MaxTokens + NumProcs - 1

\* POST /groups/{group_id}/invite up to the DELETE of store_invitation
store_invitation_begin(p, caller, group_id, email) ==
    /\ req[p].pc = "idle"
    /\ IF ~get_group_by_id(group_id)
       THEN Answer("invite_to_group", caller, group_id, 0, 404, "") /\ UNCHANGED req
       ELSE IF ~IsOwner(caller, group_id)
       THEN Answer("invite_to_group", caller, group_id, 0, 403, "") /\ UNCHANGED req
       ELSE LET existing_user == get_user_by_email(email)
                existing_member == IF existing_user = 0 THEN 0
                                   ELSE get_member_by_user_and_group(existing_user, group_id)
            IN
            IF /\ existing_member # 0
               /\ group_member[existing_member].is_accpet
               /\ group_member[existing_member].is_active
            THEN Answer("invite_to_group", caller, group_id, 0, 400,
                        "already_active_member") /\ UNCHANGED req
            ELSE \/ /\ last' = Response("invite_to_group", caller, group_id, 0,
                                        500, "store_failed", 0)
                    /\ UNCHANGED <<tables, req>>
                 \/ /\ verification_token' =
                           delete_invitations(verification_token, group_id, email)
                    /\ req' = [req EXCEPT ![p] = [Idle EXCEPT !.pc = "store_invitation_insert",
                                                              !.caller = caller,
                                                              !.group_id = group_id,
                                                              !.user_id = existing_user,
                                                              !.email = email]]
                    /\ UNCHANGED <<user, groups, group_member, group_invitation, last>>
    /\ UNCHANGED <<api_key, observe, group_api_key>>

\* store_invitation: the INSERT, and what the handler does after it
store_invitation_insert(p) ==
    /\ req[p].pc = "store_invitation_insert"
    /\ \/ /\ last' = Response("invite_to_group", req[p].caller, req[p].group_id, 0,
                              500, "store_failed", 0)
          /\ UNCHANGED tables
       \/ /\ Len(verification_token) < RoomForRacingToken
          /\ req[p].user_id # 0 => RoomForMember(req[p].group_id, req[p].user_id)
          /\ verification_token' = Append(verification_token,
                                          InvitationToken(req[p].group_id, req[p].email,
                                                          req[p].caller))
          /\ \E add_fail \in BOOLEAN :
              group_member' =
                  IF req[p].user_id # 0
                  THEN repo_add_group_member(group_member, req[p].group_id,
                                             req[p].user_id, FALSE, add_fail).gm
                  ELSE group_member
          /\ last' = Response("invite_to_group", req[p].caller, req[p].group_id, 0,
                              200, "", 0)
          /\ UNCHANGED <<user, groups, group_invitation>>
    /\ req' = [req EXCEPT ![p] = Idle]
    /\ UNCHANGED <<api_key, observe, group_api_key>>

\* Requests that invite, served one at a time (the whole handler in one step)
\* or overlapping (a coroutine suspended between the statements of
\* create_invitation, or of store_invitation).
NextInvite ==
    \/ \E c \in Users : create_group(c)
    \/ \E c \in Users, g \in GroupIds, u \in UserIds : invite_user_to_group(c, g, u)
    \/ \E c \in Users, g \in GroupIds, e \in Emails :
           invite_to_group_with_room(c, g, e, RoomForRacingToken)
    \/ \E p \in Procs, c \in Users, g \in GroupIds, u \in UserIds :
           invite_user_begin(p, c, g, u)
    \/ \E p \in Procs, c \in Users, g \in GroupIds, e \in Emails :
           store_invitation_begin(p, c, g, e)
    \/ \E p \in Procs : invite_user_insert(p) \/ store_invitation_insert(p)

SpecInvite == InitAll /\ [][NextInvite]_vars

\* Requests served one at a time, responses recorded: the e-mail invitation
\* path on top of group creation and member removal.
NextToken ==
    \/ \E c \in Users : create_group(c)
    \/ \E c \in Users, g \in GroupIds, m \in MemberIds : remove_group_member(c, g, m)
    \/ \E c \in Users, g \in GroupIds, e \in Emails : invite_to_group(c, g, e)
    \/ \E c \in Users, t \in Tokens : accept_group_invitation(c, t)
    \/ \E t \in Tokens : token_expires(t)

SpecToken == Init /\ [][NextToken]_vars

\* ---- the invitation token store on its own ----
StoredTokens == 1..MaxStoredTokens

\* GroupRepository.store_invitation(group_id, email, invited_by, token,
\* expires_at) with a fresh token
store_invitation(group_id, email, invited_by) ==
    /\ Len(verification_token) < MaxStoredTokens
    /\ \E fail \in StoreFail :
        LET r == repo_store_invitation(verification_token, group_id, email,
                                       invited_by, fail) IN
        /\ verification_token' = r.vt
        /\ last' = IF r.success
                   THEN Response("store_invitation", 0, 0, 0, 0, "ok", Len(r.vt))
                   ELSE Response("store_invitation", 0, 0, 0, 0, "failed", 0)
    /\ UNCHANGED <<user, groups, group_member, group_invitation, api_key, observe, group_api_key, req>>

\* GroupRepository.verify_invitation(token)
verify_invitation(token) ==
    /\ LET v == repo_verify_invitation(verification_token, token) IN
        /\ verification_token' = v.vt
        /\ last' = Response("verify_invitation", v.info.invited_by, v.info.group_id,
                            token, 0, v.result, v.info.email)
    /\ UNCHANGED <<user, groups, group_member, group_invitation, api_key, observe, group_api_key, req>>

NextStore ==
    \/ \E g \in GroupIds, e \in Emails, u \in Users : store_invitation(g, e, u)
    \/ \E t \in StoredTokens : verify_invitation(t)
    \/ \E t \in StoredTokens : token_expires(t)

SpecStore == Init /\ [][NextStore]_vars

\* ---- accounts: registration, e-mail verification, password reset ----
\* The row store_verification_token inserts.
UserToken(user_id, token_type) ==
    [live |-> TRUE, token_type |-> token_type, user_id |-> user_id, group_id |-> 0,
     email |-> 0, invited_by |-> 0, expired |-> FALSE]

\* UserRepository.create_user: three INSERTs between START TRANSACTION and
\* COMMIT, ROLLBACK on any exception.  The new row's id is the number of
\* its address.
repo_create_user(u_rows, email, password, is_active, fail) ==
    IF fail THEN [user |-> Rollback(u_rows, u_rows), user_id |-> 0]
    ELSE [user |-> [u_rows EXCEPT ![email] = NewUser(password, is_active)],
          user_id |-> email]

\* store_verification_token that does not delete the user's earlier tokens
repo_store_verification_token_keep_old(vt, user_id, token_type, fail) ==
    IF fail = "none"
    THEN [vt |-> Append(vt, UserToken(user_id, token_type)), success |-> TRUE]
    ELSE [vt |-> vt, success |-> FALSE]

\* UserRepository.store_verification_token: the DELETE and the INSERT are two
\* statements of an autocommit connection.
repo_store_verification_token(vt, user_id, token_type, fail) ==
    LET kept == [t \in 1..Len(vt) |->
                    IF vt[t].user_id = user_id /\ vt[t].token_type = token_type
                    THEN NoToken ELSE vt[t]]
    IN  CASE fail = "none"   -> [vt |-> Append(kept, UserToken(user_id, token_type)),
                                 success |-> TRUE]
          [] fail = "no_db"  -> [vt |-> vt, success |-> FALSE]
          [] fail = "delete" -> [vt |-> vt, success |-> FALSE]
          [] fail = "insert" -> [vt |-> kept, success |-> FALSE]

\* verify_token that leaves the token in the table after use
repo_verify_token_reusable(vt, token, token_type, fail) ==
    IF ~(token \in 1..Len(vt) /\ vt[token].token_type = token_type)
    THEN [vt |-> vt, user_id |-> 0]
    ELSE IF fail
    THEN [vt |-> vt, user_id |-> 0]
    ELSE IF vt[token].expired
    THEN [vt |-> [vt EXCEPT ![token] = NoToken], user_id |-> 0]
    ELSE [vt |-> vt, user_id |-> vt[token].user_id]

\* UserRepository.verify_token: user_id 0 is None.  fail: a statement raises
\* (the except branch returns None; a DELETE that raised deleted nothing).
repo_verify_token(vt, token, token_type, fail) ==
    IF ~(token \in 1..Len(vt) /\ vt[token].token_type = token_type)
    THEN [vt |-> vt, user_id |-> 0]
    ELSE IF fail
    THEN [vt |-> vt, user_id |-> 0]
    ELSE IF vt[token].expired
    THEN [vt |-> [vt EXCEPT ![token] = NoToken], user_id |-> 0]
    ELSE [vt |-> [vt EXCEPT ![token] = NoToken], user_id |-> vt[token].user_id]

\* UserRepository.activate_user
repo_activate_user(u_rows, user_id) ==
    [u_rows EXCEPT ![user_id].is_active = TRUE]

\* Python's truth value of a tuple: false only for the empty one.
truthy(tuple) == Len(tuple) > 0

\* UserRepository.update_password (the callers pass no current_password):
\* the (success, error) pair and the rows after the call.  fail: no
\* connection, or a statement raises.
repo_update_password(u_rows, user_id, new_password, fail) ==
    IF fail
    THEN [user |-> u_rows, success |-> FALSE, error |-> "error"]
    ELSE IF ~u_rows[user_id].registered
    THEN [user |-> u_rows, success |-> FALSE, error |-> "no_password_row"]
    ELSE IF verify_password(new_password, u_rows[user_id].password)
    THEN [user |-> u_rows, success |-> FALSE, error |-> "same_as_current"]
    ELSE IF /\ u_rows[user_id].previous_password # NoPassword
            /\ verify_password(new_password, u_rows[user_id].previous_password)
    THEN [user |-> u_rows, success |-> FALSE, error |-> "same_as_previous"]
    ELSE [user |-> [u_rows EXCEPT
                       ![user_id].password = get_password_hash(new_password),
                       ![user_id].previous_password = u_rows[user_id].password,
                       ![user_id].update_at = JustNow],
          success |-> TRUE, error |-> "none"]

\* a token the next store can hand out
RoomForUserToken == Len(verification_token) < MaxUserTokens

\* POST /users
\* The result of store_verification_token is not looked at; the mail is best
\* effort.
register_user(email, password) ==
    /\ email \in Users
    /\ IF get_user_by_email(email) # 0
       THEN Answer("register_user", 0, 0, email, 400, "already_registered")
       ELSE /\ Cardinality({u \in Users : user[u].registered}) < MaxAccounts
            /\ \E fail \in BOOLEAN :
                LET c == repo_create_user(user, email, password, FALSE, fail) IN
                IF c.user_id = 0
                THEN Answer("register_user", 0, 0, email, 500, "create_failed")
                ELSE \E store_fail \in StoreFail :
                     LET r == repo_store_verification_token(
                                  verification_token, c.user_id,
                                  "email_verification", store_fail) IN
                     /\ r.success => RoomForUserToken
                     /\ user' = c.user
                     /\ verification_token' = r.vt
                     /\ last' = Response("register_user", c.user_id, 0, email, 200, "",
                                         IF r.success THEN Len(r.vt) ELSE 0)
                     /\ UNCHANGED <<groups, group_member, group_invitation>>
    /\ UNCHANGED <<api_key, observe, group_api_key, req>>

\* POST /users/verify-email
verify_email(token) ==
    /\ \E fail \in BOOLEAN :
        LET v == repo_verify_token(verification_token, token, "email_verification",
                                   fail) IN
        /\ verification_token' = v.vt
        /\ IF v.user_id = 0
           THEN /\ last' = Response("verify_email", 0, 0, token, 400, "invalid_or_expired", 0)
                /\ user' = user
           ELSE \/ \* activate_user fails
                   /\ last' = Response("verify_email", v.user_id, 0, token, 500,
                                       "activate_failed", 0)
                   /\ user' = user
                \/ /\ user' = repo_activate_user(user, v.user_id)
                   /\ last' = Response("verify_email", v.user_id, 0, token, 200, "", 0)
    /\ UNCHANGED <<groups, group_member, group_invitation, api_key, observe, group_api_key, req>>

\* POST /users/reset-password/request
\* An unknown address gets the same answer as a known one.
request_password_reset(email) ==
    /\ LET u == get_user_by_email(email) IN
       IF u = 0
       THEN Answer("request_password_reset", 0, 0, email, 200, "")
       ELSE \E store_fail \in StoreFail :
            LET r == repo_store_verification_token(verification_token, u,
                                                   "password_reset", store_fail) IN
            /\ r.success => RoomForUserToken
            /\ verification_token' = r.vt
            /\ last' = Response("request_password_reset", 0, 0, email, 200, "",
                                IF r.success THEN Len(r.vt) ELSE 0)
            /\ UNCHANGED <<user, groups, group_member, group_invitation>>
    /\ UNCHANGED <<api_key, observe, group_api_key, req>>

\* POST /users/reset-password
\* update_password returns a (success, error) pair; the handler tests the
\* pair itself, which is never false, so it answers 200 whatever
\* update_password did.
reset_password(token, new_password) ==
    /\ \E fail \in BOOLEAN :
        LET v == repo_verify_token(verification_token, token, "password_reset", fail) IN
        /\ verification_token' = v.vt
        /\ IF v.user_id = 0
           THEN /\ last' = Response("reset_password", 0, 0, token, 400, "invalid_or_expired", 0)
                /\ user' = user
           ELSE \E update_fail \in BOOLEAN :
                LET r == repo_update_password(user, v.user_id, new_password, update_fail)
                    success == <<r.success, r.error>>
                IN
                /\ user' = r.user
                /\ last' = IF ~truthy(success)
                           THEN Response("reset_password", v.user_id, 0, token, 500,
                                         "update_failed", 0)
                           ELSE Response("reset_password", v.user_id, 0, token, 200,
                                         "changed", 0)
    /\ UNCHANGED <<groups, group_member, group_invitation, api_key, observe, group_api_key, req>>

UserTokens == 1..MaxUserTokens

\* An empty database.
InitAccount ==
    /\ user = [u \in Users |-> NoUser]
    /\ groups = <<>>
    /\ group_member = <<>>
    /\ group_invitation = <<>>
    /\ verification_token = <<>>
    /\ api_key = <<>>
    /\ group_api_key = <<>>
    /\ last = NoResponse
    /\ observe = TRUE
    /\ req = [p \in Procs |-> Idle]

NextAccount ==
    \/ \E e \in Emails, p \in Passwords : register_user(e, p)
    \/ \E t \in UserTokens : verify_email(t)
    \/ \E e \in Emails : request_password_reset(e)
    \/ \E t \in UserTokens, p \in Passwords : reset_password(t, p)
    \/ \E t \in UserTokens : token_expires(t)

SpecAccount == InitAccount /\ [][NextAccount]_vars

\* ---- login and password age ----
HoursPerDay == 24

\* timedelta.days of an elapsed time given in hours
days(elapsed) == elapsed \div HoursPerDay

PasswordChangeDays == 180

\* login asking for a change only after more than 180 days
login_password_age_after_limit(update_at) ==
    IF update_at # NoUpdateAt
    THEN [days |-> days(update_at[1]),
          change_required |-> days(update_at[1]) > PasswordChangeDays]
    ELSE [days |-> 0, change_required |-> FALSE]

\* login: password_days_old and password_change_required
login_password_age(update_at) ==
    IF update_at # NoUpdateAt
    THEN [days |-> days(update_at[1]),
          change_required |-> days(update_at[1]) >= PasswordChangeDays]
    ELSE [days |-> 0, change_required |-> FALSE]

\* create_access_token: the claims of the signed token
create_access_token(sub, email, pwd_change_required) ==
    [sub |-> sub, email |-> email, pwd_change_required |-> pwd_change_required]

\* get_current_user that does not look at is_active
get_current_user_any_account(caller) ==
    IF ~get_user_by_id(caller) THEN 401
    ELSE 0

\* get_current_user: 0 when the caller is let in, the status code otherwise
get_current_user(caller) ==
    IF ~get_user_by_id(caller) THEN 401
    ELSE IF ~user[caller].is_active THEN 403
    ELSE 0

\* login that does not look at is_active
login_any_account(email, password) ==
    /\ LET u == get_user_by_email(email) IN
       IF u = 0
       THEN Answer("login", 0, 0, email, 401, "bad_credentials")
       ELSE IF ~verify_password(password, user[u].password)
       THEN Answer("login", 0, 0, email, 401, "bad_credentials")
       ELSE LET age == login_password_age(user[u].update_at)
                access_token == create_access_token(u, EmailOf(u), age.change_required)
            IN  \/ Answer("login", u, 0, email, 500, "login_history_failed")
                \/ /\ user[u].login_hist < MaxLogins
                   /\ user' = [user EXCEPT ![u].login_hist = @ + 1]
                   /\ last' = Response("login", u, 0, email, 200, "",
                                       [access_token |-> access_token,
                                        password_age |-> age])
                   /\ UNCHANGED <<groups, group_member, group_invitation,
                                  verification_token>>
    /\ UNCHANGED <<api_key, observe, group_api_key, req>>

\* POST /auth/login
\* create_login_history is awaited without a try: an INSERT that raises
\* fails the request.
login(email, password) ==
    /\ LET u == get_user_by_email(email) IN
       IF u = 0
       THEN Answer("login", 0, 0, email, 401, "bad_credentials")
       ELSE IF ~verify_password(password, user[u].password)
       THEN Answer("login", 0, 0, email, 401, "bad_credentials")
       ELSE IF ~user[u].is_active
       THEN Answer("login", 0, 0, email, 403, "inactive")
       ELSE LET age == login_password_age(user[u].update_at)
                access_token == create_access_token(u, EmailOf(u), age.change_required)
            IN  \/ Answer("login", u, 0, email, 500, "login_history_failed")
                \/ /\ user[u].login_hist < MaxLogins
                   /\ user' = [user EXCEPT ![u].login_hist = @ + 1]
                   /\ last' = Response("login", u, 0, email, 200, "",
                                       [access_token |-> access_token,
                                        password_age |-> age])
                   /\ UNCHANGED <<groups, group_member, group_invitation,
                                  verification_token>>
    /\ UNCHANGED <<api_key, observe, group_api_key, req>>

\* GET /users/me/password-status
\* There is no test for a NULL update_at here: the subtraction raises.
get_password_status(caller) ==
    /\ IF get_current_user(caller) # 0
       THEN Answer("get_password_status", caller, 0, 0, get_current_user(caller), "")
       ELSE IF user[caller].update_at = NoUpdateAt
       THEN Answer("get_password_status", caller, 0, 0, 500, "update_at_is_null")
       ELSE /\ last' = Response("get_password_status", caller, 0, 0, 200, "",
                                [days_since_change |-> days(user[caller].update_at[1]),
                                 change_required |->
                                     days(user[caller].update_at[1]) >= PasswordChangeDays])
            /\ UNCHANGED tables
    /\ UNCHANGED <<api_key, observe, group_api_key, req>>

\* PUT /users/me/password looking at the first component of the pair
update_password_unpacks_result(caller, current_password, new_password) ==
    /\ IF get_current_user(caller) # 0
       THEN Answer("update_password", caller, 0, 0, get_current_user(caller), "")
       ELSE IF ~verify_password(current_password, user[caller].password)
       THEN Answer("update_password", caller, 0, 0, 400, "wrong_current_password")
       ELSE \E fail \in BOOLEAN :
            LET r == repo_update_password(user, caller, new_password, fail) IN
            /\ user' = r.user
            /\ last' = IF ~r.success
                       THEN Response("update_password", caller, 0, new_password, 500,
                                     "update_failed", 0)
                       ELSE Response("update_password", caller, 0, new_password, 200,
                                     "changed", 0)
            /\ UNCHANGED <<groups, group_member, group_invitation, verification_token>>
    /\ UNCHANGED <<api_key, observe, group_api_key, req>>

\* PUT /users/me/password
\* As in reset_password, the (success, error) pair of update_password is
\* tested as a whole ("if not success"), and a pair is never false: the
\* answer is 200 whatever update_password did.
update_password(caller, current_password, new_password) ==
    /\ IF get_current_user(caller) # 0
       THEN Answer("update_password", caller, 0, 0, get_current_user(caller), "")
       ELSE IF ~verify_password(current_password, user[caller].password)
       THEN Answer("update_password", caller, 0, 0, 400, "wrong_current_password")
       ELSE \E fail \in BOOLEAN :
            LET r == repo_update_password(user, caller, new_password, fail)
                success == <<r.success, r.error>>
            IN
            /\ user' = r.user
            /\ last' = IF ~truthy(success)
                       THEN Response("update_password", caller, 0, new_password, 500,
                                     "update_failed", 0)
                       ELSE Response("update_password", caller, 0, new_password, 200,
                                     "changed", 0)
            /\ UNCHANGED <<groups, group_member, group_invitation, verification_token>>
    /\ UNCHANGED <<api_key, observe, group_api_key, req>>

\* the elapsed times looked at: the first hours after a change and the hours
\* around the 180th day
LimitHours == PasswordChangeDays * HoursPerDay

Elapsed == (0..AgeSlack) \cup ((LimitHours - AgeSlack)..(LimitHours + AgeSlack))

\* One hour passes.
time_passes ==
    /\ \A u \in Users :
          user[u].update_at # NoUpdateAt => (user[u].update_at[1] + 1) \in Elapsed
    /\ user' = [u \in Users |->
                  IF user[u].update_at # NoUpdateAt
                  THEN [user[u] EXCEPT !.update_at = <<@[1] + 1>>]
                  ELSE user[u]]
    /\ UNCHANGED <<groups, group_member, group_invitation, verification_token,
                   last, api_key, observe, group_api_key, req>>

\* Account 1 is verified and changed its password some time ago (or has no
\* recorded time), account 2 has not verified its address yet, the other
\* addresses are not registered.
InitLogin ==
    /\ \E update_at \in {NoUpdateAt} \cup {<<h>> : h \in Elapsed} :
          user = [u \in Users |->
                     IF u = 1 THEN [RegisteredUser EXCEPT !.update_at = update_at]
                     ELSE IF u = 2 THEN [NewUser(1, FALSE) EXCEPT !.update_at = update_at]
                     ELSE NoUser]
    /\ groups = <<>>
    /\ group_member = <<>>
    /\ group_invitation = <<>>
    /\ verification_token = <<>>
    /\ api_key = <<>>
    /\ group_api_key = <<>>
    /\ last = NoResponse
    /\ observe = TRUE
    /\ req = [p \in Procs |-> Idle]

NextLogin ==
    \/ \E e \in Emails, p \in Passwords : login(e, p)
    \/ \E c \in Users : get_password_status(c)
    \/ \E c \in Users, p \in Passwords, q \in Passwords : update_password(c, p, q)
    \/ time_passes

SpecLogin == InitLogin /\ [][NextLogin]_vars

\* ---- sessions: requests made with a token that login issued ----

\* Depends(get_current_user) in front of a handler: the handler runs only for
\* a caller get_current_user lets in.
authenticated(caller, op, request) ==
    IF get_current_user(caller) # 0
    THEN /\ Answer(op, caller, 0, 0, get_current_user(caller), "credentials")
         /\ UNCHANGED <<api_key, observe, group_api_key, req>>
    ELSE request

\* DELETE /users/me
delete_user(caller) ==
    /\ IF get_current_user(caller) # 0
       THEN Answer("delete_user", caller, 0, 0, get_current_user(caller), "credentials")
       ELSE \/ Answer("delete_user", caller, 0, 0, 500, "delete_failed")
            \/ /\ user' = [user EXCEPT ![caller].is_active = FALSE]
               /\ last' = Response("delete_user", caller, 0, 0, 200, "", 0)
               /\ UNCHANGED <<groups, group_member, group_invitation,
                              verification_token>>
    /\ UNCHANGED <<api_key, observe, group_api_key, req>>

NextSession ==
    \/ \E e \in Emails, p \in Passwords : register_user(e, p)
    \/ \E t \in UserTokens : verify_email(t)
    \/ \E e \in Emails, p \in Passwords : login(e, p)
    \/ \E c \in Users : delete_user(c)
    \/ \E c \in Users : get_password_status(c)
    \/ \E c \in Users, p \in Passwords, q \in Passwords : update_password(c, p, q)
    \/ \E c \in Users : authenticated(c, "create_group", create_group(c))

SpecSession == InitAccount /\ [][NextSession]_vars

\* ---- crypto vault ----
\* A str is a sequence of character codes, a bytes value a sequence of byte
\* values in 0..ByteValues-1.  Codes below 16 stand for the characters UTF-8
\* writes as one byte, the codes from 16 on for those it writes as two.
None == <<-1>>

Bytes == 0..(ByteValues - 1)

\* Python's s[:n] and s[n:]
UpTo(s, n) == SubSeq(s, 1, IF Len(s) < n THEN Len(s) ELSE n)

From(s, n) == IF n >= Len(s) THEN <<>> ELSE SubSeq(s, n + 1, Len(s))

\* str.encode(): one byte for a code below 16, a lead byte (16..23) and a
\* continuation byte (24..31) for the others.
RECURSIVE encode(_)
encode(text) ==
    IF text = <<>> THEN <<>>
    ELSE LET c == Head(text) IN
         (IF c < 16 THEN <<c>>
          ELSE <<16 + ((c - 16) \div 8), 24 + ((c - 16) % 8)>>) \o encode(Tail(text))

\* bytes.decode(): None for a sequence that is no encoding of a str (the
\* UnicodeDecodeError decrypt catches).
RECURSIVE decode(_)
decode(data) ==
    IF data = <<>> THEN <<>>
    ELSE IF Head(data) < 16
    THEN LET rest == decode(Tail(data)) IN
         IF rest = None THEN None ELSE <<Head(data)>> \o rest
    ELSE IF /\ Head(data) \in 16..23
            /\ Len(data) >= 2
            /\ data[2] \in 24..31
    THEN LET rest == decode(Tail(Tail(data))) IN
         IF rest = None THEN None
         ELSE <<16 + 8 * (Head(data) - 16) + (data[2] - 24)>> \o rest
    ELSE None

\* CryptoManager.key: sha256(SECRET_KEY + CRYPTO_SALT), one value per process
Key == 7

\* AES.block_size in bytes, also the length of the IV
BlockSize == 16

\* padding.PKCS7(...).padder(): n bytes of value n, 1 <= n <= BlockSize
PKCS7_pad(data) ==
    LET n == BlockSize - (Len(data) % BlockSize) IN
    data \o [i \in 1..n |-> n]

\* padding.PKCS7(...).unpadder(): None for "Invalid padding bytes"
PKCS7_unpad(data) ==
    IF data = <<>> \/ Len(data) % BlockSize # 0 THEN None
    ELSE LET n == data[Len(data)] IN
         IF /\ n \in 1..BlockSize
            /\ \A i \in (Len(data) - n + 1)..Len(data) : data[i] = n
         THEN SubSeq(data, 1, Len(data) - n)
         ELSE None

\* The block cipher on one byte of a block (position i) and its inverse; the
\* exclusive or of CBC is the addition of byte values.
E(b, i) == (b + Key + i) % ByteValues

D(b, i) == (b + ByteValues * (2 + (Key + i) \div ByteValues) - Key - i) % ByteValues

\* CryptoManager._encrypt_aes_cbc with the IV os.urandom drew
_encrypt_aes_cbc(data, iv) ==
    LET padded == PKCS7_pad(data)
        ct[n \in 1..Len(padded)] ==
            E((padded[n] + (IF n <= BlockSize THEN iv[n] ELSE ct[n - BlockSize]))
                  % ByteValues,
              ((n - 1) % BlockSize) + 1)
    IN  [n \in 1..Len(padded) |-> ct[n]]

\* _decrypt_aes_cbc without the chaining: every block deciphered alone
_decrypt_aes_ecb(iv, ciphertext) ==
    IF Len(ciphertext) % BlockSize # 0 \/ Len(iv) # BlockSize THEN None
    ELSE PKCS7_unpad(
             [n \in 1..Len(ciphertext) |->
                 D(ciphertext[n], ((n - 1) % BlockSize) + 1)])

\* CryptoManager._decrypt_aes_cbc: None for the ValueError of a ciphertext
\* that is no whole number of blocks or of a wrong padding
_decrypt_aes_cbc(iv, ciphertext) ==
    IF Len(ciphertext) % BlockSize # 0 \/ Len(iv) # BlockSize THEN None
    ELSE PKCS7_unpad(
             [n \in 1..Len(ciphertext) |->
                 (D(ciphertext[n], ((n - 1) % BlockSize) + 1) + ByteValues
                    - (IF n <= BlockSize THEN iv[n] ELSE ciphertext[n - BlockSize]))
                 % ByteValues])

\* base64.b64encode(...).decode(): every byte is written as two digits, the
\* digits are characters 0..7 (here: base 8, most significant first).
b64encode(data) ==
    [i \in 1..(2 * Len(data)) |->
        IF i % 2 = 1 THEN data[(i + 1) \div 2] \div 8 ELSE data[i \div 2] % 8]

\* base64.b64decode(text.encode()): None for a text that is no encoding
b64decode(text) ==
    IF \/ Len(text) % 2 # 0
       \/ \E i \in 1..Len(text) : text[i] \notin 0..7
       \/ \E i \in 1..(Len(text) \div 2) : 8 * text[2 * i - 1] + text[2 * i] >= ByteValues
    THEN None
    ELSE [i \in 1..(Len(text) \div 2) |-> 8 * text[2 * i - 1] + text[2 * i]]

\* CryptoManager.encrypt with the IV drawn
encrypt(plain_text, iv) ==
    IF plain_text = None \/ plain_text = <<>> THEN None
    ELSE b64encode(iv \o _encrypt_aes_cbc(encode(plain_text), iv))

\* CryptoManager.decrypt
decrypt(encrypted_text) ==
    IF encrypted_text = None \/ encrypted_text = <<>> THEN None
    ELSE LET combined == b64decode(encrypted_text) IN
         IF combined = None THEN None
         ELSE LET iv == UpTo(combined, BlockSize)
                  ciphertext == From(combined, BlockSize)
                  decrypted_bytes == _decrypt_aes_cbc(iv, ciphertext)
              IN  IF decrypted_bytes = None THEN None ELSE decode(decrypted_bytes)

\* no IV: encrypt is not called, or returns before it draws one
NoIV == <<>>

\* the IVs os.urandom(16) can return
IVs == {[i \in 1..BlockSize |-> (i * k) % ByteValues] : k \in 1..NumIVs}

\* ---- credential store ----
AllowedVendors == {"openai", "anthropic", "google", "azure"}

\* The vendor values of the requests to create: the allow-list and one
\* value outside it.
Vendors == AllowedVendors \cup {"other"}

\* The vendor values of the requests to update: one with a format of its
\* own, one of those checked by length alone, one outside the allow-list.
NewVendors == {"openai", "anthropic", "other"}

\* the characters "s", "k", "-"
sk == <<1, 2, 3>>

\* a text of n times the character c
Fill(c, n) == [i \in 1..n |-> c]

\* The api_key values of the requests: with the "sk-" prefix and filling the
\* last block exactly, without the prefix and just above the length the
\* format check asks for, shorter than the schema allows, and with a
\* character of two bytes.
ApiKeys ==
    { sk \o Fill(4, 29),
      Fill(5, 21),
      Fill(8, 4),
      <<17>> \o Fill(9, 20) }

\* The api_key values of the requests to update: the empty text, a key with
\* the "sk-" prefix and one without.
NewApiKeys == {<<>>, sk \o Fill(4, 29), Fill(5, 21)}

\* ApiKeyRepository.check_service_availability
check_service_availability(key, vendor) ==
    CASE vendor = "openai" -> UpTo(key, 3) = sk /\ Len(key) > 20
      [] vendor \in {"anthropic", "google", "azure"} -> Len(key) > 20
      [] OTHER -> FALSE

\* A deleted row: the id is not given out again.
NoApiKey == [live |-> FALSE, user_id |-> 0, vendor |-> "", api_key |-> None,
             is_active |-> FALSE]

\* SELECT ... FROM api_key WHERE api_key_id = id: is there a row
ApiKeyExists(rows, id) == id \in 1..Len(rows) /\ rows[id].live

\* original_key[:4] + "*" * 8 if original_key else "": the mask character is
\* code 0
masked(original_key) ==
    IF original_key = None \/ original_key = <<>> THEN <<>>
    ELSE UpTo(original_key, 4) \o Fill(0, 8)

\* ApiKeyRepository.create_api_key: the table after the INSERT and the new id
\* (0: None)
repo_create_api_key(rows, user_id, vendor, key, is_active, iv, fail) ==
    IF fail THEN [api_key |-> rows, api_key_id |-> 0]
    ELSE [api_key |-> Append(rows, [live |-> TRUE, user_id |-> user_id,
                                    vendor |-> vendor,
                                    api_key |-> encrypt(key, iv),
                                    is_active |-> is_active]),
          api_key_id |-> Len(rows) + 1]

\* ApiKeyRepository.get_api_key_by_id: the row as a dict, None without one
repo_get_api_key_by_id(rows, id, with_decrypt) ==
    IF ~ApiKeyExists(rows, id) THEN None
    ELSE [api_key_id |-> id, user_id |-> rows[id].user_id, vendor |-> rows[id].vendor,
          is_active |-> rows[id].is_active,
          api_key |-> IF with_decrypt /\ rows[id].api_key # None /\ rows[id].api_key # <<>>
                      THEN decrypt(rows[id].api_key)
                      ELSE rows[id].api_key]

\* ApiKeyRepository.get_user_api_keys(user_id, decrypt=False): one dict per
\* row of the user; a row whose api_key is empty gets no masked_key entry
repo_get_user_api_keys(rows, user_id) ==
    { IF rows[id].api_key # None /\ rows[id].api_key # <<>>
      THEN [api_key_id |-> id, user_id |-> user_id, vendor |-> rows[id].vendor,
            is_active |-> rows[id].is_active,
            masked_key |-> masked(decrypt(rows[id].api_key)),
            api_key |-> None]
      ELSE [api_key_id |-> id, user_id |-> user_id, vendor |-> rows[id].vendor,
            is_active |-> rows[id].is_active,
            api_key |-> rows[id].api_key]
      : id \in {i \in 1..Len(rows) : rows[i].live /\ rows[i].user_id = user_id} }

\* ApiKeyRepository.check_api_key_owner: the error, "" for (True, None)
check_api_key_owner(rows, id, user_id) ==
    IF ~ApiKeyExists(rows, id) THEN "not_found"
    ELSE IF rows[id].user_id # user_id THEN "not_owner"
    ELSE ""

\* response_model=ApiKeyResponse: the fields of the schema, a missing
\* Optional one as None
ApiKeyResponse(d) ==
    [api_key_id |-> d.api_key_id, user_id |-> d.user_id, vendor |-> d.vendor,
     is_active |-> d.is_active,
     masked_key |-> IF "masked_key" \in DOMAIN d THEN d.masked_key ELSE None]

\* response_model=ApiKeyDetailResponse
ApiKeyDetailResponse(d) ==
    [api_key_id |-> d.api_key_id, user_id |-> d.user_id, vendor |-> d.vendor,
     is_active |-> d.is_active,
     masked_key |-> IF "masked_key" \in DOMAIN d THEN d.masked_key ELSE None,
     api_key |-> IF "api_key" \in DOMAIN d THEN d.api_key ELSE None]

\* An optional field of a request body: {} is None.
Opt(values) == {{}} \cup {{v} : v \in values}

\* the value of an optional field that is given
ValueOf(opt) == CHOOSE v \in opt : TRUE

\* an answer of a credential request that leaves the tables alone
ApiKeyAnswer(op, caller, id, code, msg, ret) ==
    /\ last' = Response(op, caller, 0, id, code, msg, ret)
    /\ UNCHANGED <<tables, api_key>>

\* POST /api-keys
create_api_key(caller, vendor, key, is_active) ==
    /\ IF vendor \notin AllowedVendors \/ Len(key) < 5
       THEN ApiKeyAnswer("create_api_key", caller, 0, 422, "validation", None)
       ELSE IF ~check_service_availability(key, vendor)
       THEN ApiKeyAnswer("create_api_key", caller, 0, 400, "invalid_format", None)
       ELSE \E fail \in BOOLEAN : \E iv \in IF fail THEN {NoIV} ELSE IVs :
            LET r == repo_create_api_key(api_key, caller, vendor, key, is_active, iv,
                                         fail)
            IN
            IF r.api_key_id = 0
            THEN ApiKeyAnswer("create_api_key", caller, 0, 500, "create_failed", None)
            ELSE /\ Len(api_key) < MaxApiKeys
                 /\ api_key' = r.api_key
                 /\ UNCHANGED tables
                 /\ \/ \* the row cannot be read back
                       last' = Response("create_api_key", caller, 0, r.api_key_id, 500,
                                        "cannot_load", None)
                    \/ LET d == repo_get_api_key_by_id(r.api_key, r.api_key_id, FALSE) IN
                       last' = Response("create_api_key", caller, 0, r.api_key_id, 200, "",
                                        ApiKeyResponse(
                                            [api_key_id |-> d.api_key_id,
                                             user_id |-> d.user_id,
                                             vendor |-> d.vendor,
                                             is_active |-> d.is_active,
                                             masked_key |-> masked(key),
                                             api_key |-> None]))
    /\ UNCHANGED <<observe, group_api_key, req>>

\* GET /api-keys
get_user_api_keys(caller) ==
    /\ \/ ApiKeyAnswer("get_user_api_keys", caller, 0, 200, "", {})
       \/ ApiKeyAnswer("get_user_api_keys", caller, 0, 200, "",
                       {ApiKeyResponse(d) : d \in repo_get_user_api_keys(api_key, caller)})
    /\ UNCHANGED <<observe, group_api_key, req>>

\* GET /api-keys/{api_key_id} without the ownership check
get_api_key_detail_for_anyone(caller, api_key_id) ==
    /\ LET d == repo_get_api_key_by_id(api_key, api_key_id, TRUE) IN
       IF ~ApiKeyExists(api_key, api_key_id)
       THEN ApiKeyAnswer("get_api_key_detail", caller, api_key_id, 404, "not_found", None)
       ELSE ApiKeyAnswer("get_api_key_detail", caller, api_key_id, 200, "",
                         ApiKeyDetailResponse(
                             [api_key_id |-> d.api_key_id, user_id |-> d.user_id,
                              vendor |-> d.vendor, is_active |-> d.is_active,
                              masked_key |-> masked(d.api_key),
                              api_key |-> d.api_key]))
    /\ UNCHANGED <<observe, group_api_key, req>>

\* GET /api-keys/{api_key_id}
\* Every refusal of check_api_key_owner, "not found" included, is raised as
\* 403 with the repository's message.
get_api_key_detail(caller, api_key_id) ==
    /\ LET error == check_api_key_owner(api_key, api_key_id, caller)
           d == repo_get_api_key_by_id(api_key, api_key_id, TRUE)
       IN
       IF error # ""
       THEN ApiKeyAnswer("get_api_key_detail", caller, api_key_id, 403, error, None)
       ELSE \/ \* the read fails
               ApiKeyAnswer("get_api_key_detail", caller, api_key_id, 404, "not_found",
                            None)
            \/ ApiKeyAnswer("get_api_key_detail", caller, api_key_id, 200, "",
                            ApiKeyDetailResponse(
                                [api_key_id |-> d.api_key_id, user_id |-> d.user_id,
                                 vendor |-> d.vendor, is_active |-> d.is_active,
                                 masked_key |-> masked(d.api_key),
                                 api_key |-> d.api_key]))
    /\ UNCHANGED <<observe, group_api_key, req>>

\* ApiKeyRepository.update_api_key: the table after the UPDATE
repo_update_api_key(rows, id, vendor_opt, key_opt, is_active_opt, iv) ==
    [rows EXCEPT ![id] =
        [@ EXCEPT !.vendor = IF vendor_opt # {} THEN ValueOf(vendor_opt) ELSE @,
                  !.api_key = IF key_opt # {} THEN encrypt(ValueOf(key_opt), iv) ELSE @,
                  !.is_active = IF is_active_opt # {} THEN ValueOf(is_active_opt) ELSE @]]

\* PUT /api-keys/{api_key_id}
update_api_key(caller, api_key_id, vendor_opt, key_opt, is_active_opt) ==
    /\ LET error == check_api_key_owner(api_key, api_key_id, caller)
           key == IF key_opt = {} THEN None ELSE ValueOf(key_opt)
           has_key == key # None /\ key # <<>>
       IN
       IF vendor_opt # {} /\ ValueOf(vendor_opt) \notin AllowedVendors
       THEN ApiKeyAnswer("update_api_key", caller, api_key_id, 422, "validation", None)
       ELSE IF error # ""
       THEN ApiKeyAnswer("update_api_key", caller, api_key_id, 403, error, None)
       ELSE IF /\ has_key
               /\ ~check_service_availability(
                       key, IF vendor_opt # {} THEN ValueOf(vendor_opt)
                            ELSE api_key[api_key_id].vendor)
       THEN ApiKeyAnswer("update_api_key", caller, api_key_id, 400, "invalid_format", None)
       ELSE \/ ApiKeyAnswer("update_api_key", caller, api_key_id, 500, "update_failed",
                            None)
            \/ \E iv \in IF has_key THEN IVs ELSE {NoIV} :
               LET rows == repo_update_api_key(api_key, api_key_id, vendor_opt, key_opt,
                                               is_active_opt, iv)
                   d == repo_get_api_key_by_id(rows, api_key_id, FALSE)
                   decrypted_key == repo_get_api_key_by_id(rows, api_key_id, TRUE)
               IN
               /\ api_key' = rows
               /\ UNCHANGED tables
               /\ last' = Response("update_api_key", caller, 0, api_key_id, 200, "",
                                   ApiKeyResponse(
                                       [api_key_id |-> d.api_key_id,
                                        user_id |-> d.user_id,
                                        vendor |-> d.vendor,
                                        is_active |-> d.is_active,
                                        masked_key |->
                                            IF has_key
                                            THEN UpTo(key, 4) \o Fill(0, 8)
                                            ELSE masked(decrypted_key.api_key),
                                        api_key |-> None]))
    /\ UNCHANGED <<observe, group_api_key, req>>

\* DELETE /api-keys/{api_key_id}
delete_api_key(caller, api_key_id) ==
    /\ LET error == check_api_key_owner(api_key, api_key_id, caller) IN
       IF error # ""
       THEN ApiKeyAnswer("delete_api_key", caller, api_key_id, 403, error, None)
       ELSE \/ ApiKeyAnswer("delete_api_key", caller, api_key_id, 500, "delete_failed",
                            None)
            \/ /\ api_key' = [api_key EXCEPT ![api_key_id] = NoApiKey]
               /\ UNCHANGED tables
               /\ last' = Response("delete_api_key", caller, 0, api_key_id, 200, "", None)
    /\ UNCHANGED <<observe, group_api_key, req>>

ApiKeyIds == 1..MaxApiKeys

\* the users who send credential requests
KeyUsers == 1..NumKeyUsers

NextCredential ==
    \/ \E c \in KeyUsers, v \in Vendors, k \in ApiKeys, a \in BOOLEAN :
          create_api_key(c, v, k, a)
    \/ \E c \in KeyUsers : get_user_api_keys(c)
    \/ \E c \in KeyUsers, i \in ApiKeyIds : get_api_key_detail(c, i)
    \/ \E c \in KeyUsers, i \in ApiKeyIds, v \in Opt(NewVendors),
          k \in Opt(NewApiKeys), a \in OptBool :
          update_api_key(c, i, v, k, a)
    \/ \E c \in KeyUsers, i \in ApiKeyIds : delete_api_key(c, i)

SpecCredential == Init /\ [][NextCredential]_vars

\* ---- groups and the credential they reference ----
\* SELECT g.*, ak.vendor ... FROM `group` g JOIN api_key ak
\*   ON g.api_key_id = ak.api_key_id JOIN user u ... WHERE g.group_id = g
\* (an inner join: no row when the referenced credential is missing)
get_group_with_api_key_info(g_rows, keys, ak_rows, group_id) ==
    /\ group_id \in 1..Len(g_rows)
    /\ ApiKeyExists(ak_rows, keys[group_id])

\* POST /groups with the api_key_id of the request body: the id is written as
\* it was sent (the ownership check is a TODO in the handler), and the new
\* group is read back through the join with api_key.
create_group_with_api_key(caller, api_key_id) ==
    /\ Len(groups) < MaxGroups
    /\ Len(group_member) < MaxMembers
    /\ \E fail \in CreateFail :
        LET r == repo_create_group(DB, caller, fail)
            keys == IF r.group_id = 0 THEN group_api_key
                    ELSE Append(group_api_key, api_key_id)
        IN
        /\ user' = r.db.user
        /\ groups' = r.db.groups
        /\ group_member' = r.db.group_member
        /\ group_api_key' = keys
        /\ last' = IF r.group_id = 0
                   THEN Response("create_group", caller, 0, 0, 400, r.error, 0)
                   ELSE IF ~get_group_with_api_key_info(r.db.groups, keys, api_key,
                                                        r.group_id)
                   THEN Response("create_group", caller, r.group_id, 0, 500,
                                 "cannot_load", 0)
                   ELSE Response("create_group", caller, r.group_id, 0, 200, "",
                                 r.group_id)
    /\ UNCHANGED <<group_invitation, verification_token, api_key, observe, req>>

\* PUT /groups/{group_id} with is_active and api_key_id of the request body
\* (None: the column is left alone).  The updated group is read back through
\* the join; without a row the response model has nothing to serialise.
update_group_with_api_key(caller, group_id) ==
    /\ IF ~get_group_by_id(group_id)
       THEN Answer("update_group", caller, group_id, 0, 404, "")
            /\ UNCHANGED group_api_key
       ELSE IF ~IsOwner(caller, group_id)
       THEN Answer("update_group", caller, group_id, 0, 403, "")
            /\ UNCHANGED group_api_key
       ELSE \E is_active \in OptBool, api_key_id \in Opt(ApiKeyIds) :
            LET keys == IF api_key_id = {} THEN group_api_key
                        ELSE [group_api_key EXCEPT ![group_id] = ValueOf(api_key_id)]
            IN
            /\ groups' = repo_update_group(groups, group_id, is_active)
            /\ group_api_key' = keys
            /\ last' = IF get_group_with_api_key_info(groups, keys, api_key, group_id)
                       THEN Response("update_group", caller, group_id, 0, 200, "", 0)
                       ELSE Response("update_group", caller, group_id, 0, 500,
                                     "cannot_load", 0)
            /\ UNCHANGED <<user, group_member, group_invitation, verification_token>>
    /\ UNCHANGED <<api_key, observe, req>>

\* GET /groups/{group_id}
get_group_details(caller, group_id) ==
    /\ IF ~get_group_with_api_key_info(groups, group_api_key, api_key, group_id)
       THEN Answer("get_group_details", caller, group_id, 0, 404, "")
       ELSE LET member == get_member_by_user_and_group(caller, group_id) IN
            IF /\ \/ member = 0
                  \/ ~group_member[member].is_accpet
                  \/ ~group_member[member].is_active
               /\ ~IsOwner(caller, group_id)
            THEN Answer("get_group_details", caller, group_id, 0, 403, "")
            ELSE Answer("get_group_details", caller, group_id, 0, 200, "")
    /\ UNCHANGED <<api_key, observe, group_api_key, req>>

\* Requests served one at a time: credentials are created and deleted, groups
\* are created and updated with the credential the request names, and read.
NextGroupKey ==
    \/ \E c \in KeyUsers, k \in ApiKeys : create_api_key(c, "openai", k, TRUE)
    \/ \E c \in KeyUsers, i \in ApiKeyIds : delete_api_key(c, i)
    \/ \E c \in Users, i \in ApiKeyIds : create_group_with_api_key(c, i)
    \/ \E c \in Users, g \in GroupIds : update_group_with_api_key(c, g)
    \/ \E c \in Users, g \in GroupIds : get_group_details(c, g)

SpecGroupKey == Init /\ [][NextGroupKey]_vars

\* ---- properties ----

\* The membership rows of group g in a group_member table.
RowsOf(gm, g) == {m \in 1..Len(gm) : gm[m].group_id = g}

\* C1: right after a successful group creation the new group has exactly one
\* membership row; it is the creating account's, the account is the group's
\* owner, and the row is accepted and active.
C1_NewGroupHasOnlyItsOwner ==
    (last.op = "create_group" /\ last.code = 200) =>
        /\ get_group_by_id(last.ret)
        /\ groups[last.ret].owner_user_id = last.caller
        /\ Cardinality(get_group_members(last.ret)) = 1
        /\ \A m \in get_group_members(last.ret) :
              /\ group_member[m].user_id = last.caller
              /\ group_member[m].is_accpet
              /\ group_member[m].is_active

C1_Witness ==
    /\ last.op = "create_group"
    /\ last.code = 200
    /\ last.ret = Len(groups)
    /\ group_member[Len(group_member)].group_id = last.ret

\* C2: delete_group is all or nothing: on success the group row and every
\* membership row of the group are inactive; when a step fails the group rows
\* and the membership rows are what they were before the call.
C2_DeleteGroupAllOrNothing ==
    [][(last'.op = "delete_group" /\ last'.code \in {200, 400}) =>
          IF last'.code = 200
          THEN /\ ~groups'[last'.gid].is_active
               /\ \A m \in RowsOf(group_member', last'.gid) : ~group_member'[m].is_active
          ELSE /\ groups' = groups
               /\ group_member' = group_member]_vars

C2_Witness ==
    /\ last.op = "delete_group"
    /\ last.code = 400
    /\ last.msg = "update_member"
    /\ groups[last.gid].is_active
    /\ \E m \in RowsOf(group_member, last.gid) : group_member[m].is_active

\* Every group has a membership row of its owner.
OwnerRowExists(g_rows, gm) ==
    \A g \in 1..Len(g_rows) : MemberIdOf(gm, g, g_rows[g].owner_user_id) # 0

C4_AddGroupMemberUpserts ==
    [][(last'.op = "add_group_member" /\ last'.code \in {200, 400}
            /\ last'.msg # "add_error") =>
          LET g == last'.gid
              u == last'.id
              e == MemberIdOf(group_member, g, u)
          IN  IF e # 0 /\ group_member[e].is_accpet /\ group_member[e].is_active
              THEN /\ last'.code = 400
                   /\ last'.msg = "already_active_member"
                   /\ group_member' = group_member
              ELSE IF e # 0
              THEN /\ last'.code = 200
                   /\ last'.ret = e
                   /\ group_member' = [group_member EXCEPT ![e].is_accpet = TRUE,
                                                           ![e].is_active = TRUE]
                   /\ \A flag \in BOOLEAN :
                        LET r == repo_add_group_member(group_member, g, u, flag, FALSE)
                        IN  /\ r.member_id = e
                            /\ r.gm = [group_member EXCEPT ![e].is_accpet = flag,
                                                           ![e].is_active = TRUE]
              ELSE /\ last'.code = 200
                   /\ last'.ret = Len(group_member) + 1
                   /\ Len(group_member') = Len(group_member) + 1
                   /\ SubSeq(group_member', 1, Len(group_member)) = group_member
                   /\ group_member'[last'.ret].group_id = g
                   /\ group_member'[last'.ret].user_id = u]_vars

\* The first membership row of a group is inserted by create_group: an add
\* that returns it has updated it in place.
C4_Witness ==
    /\ last.op = "add_group_member"
    /\ last.code = 200
    /\ last.ret = 1
    /\ group_member[1].is_accpet
    /\ group_member[1].is_active

\* C5: whatever requests were served, one at a time, there is at most one
\* membership row for a (group, user) pair.
C5_OneRowPerGroupAndUser ==
    \A m, n \in 1..Len(group_member) :
        (group_member[m].group_id = group_member[n].group_id
            /\ group_member[m].user_id = group_member[n].user_id) => m = n

C5_Witness ==
    /\ Len(group_member) = 2
    /\ group_member[1].group_id = group_member[2].group_id
    /\ group_member[2].is_accpet
    /\ \E i \in 1..Len(group_invitation) :
          /\ group_invitation[i].status = "accepted"
          /\ group_invitation[i].user_id = group_member[2].user_id
    /\ \E t \in 1..Len(verification_token) :
          /\ verification_token[t].live
          /\ verification_token[t].email = EmailOf(group_member[2].user_id)

\* C6: a remove-member request that targets the owner's membership row is
\* rejected, whoever sends it, and the row stays as it is; on another row the
\* request, when it is carried out, only sets that row's active flag to false.
C6_OwnerRowCannotBeRemoved ==
    [][(last'.op = "remove_group_member" /\ get_group_by_id(last'.gid)
            /\ InGroup(last'.id, last'.gid)) =>
          LET g == last'.gid
              m == last'.id
          IN  IF group_member[m].user_id = groups[g].owner_user_id
              THEN /\ last'.code \in {400, 403}
                   /\ UNCHANGED tables
              ELSE \/ /\ last'.code = 200
                      /\ group_member' = [group_member EXCEPT ![m].is_active = FALSE]
                      /\ UNCHANGED <<user, groups, group_invitation, verification_token>>
                   \/ /\ last'.code = 400
                      /\ last'.msg = "remove_failed"
                      /\ UNCHANGED tables
                   \/ /\ last'.code = 403
                      /\ last'.caller # groups[g].owner_user_id
                      /\ last'.caller # group_member[m].user_id
                      /\ UNCHANGED tables]_vars

C6_Witness ==
    /\ last.op = "remove_group_member"
    /\ last.code = 400
    /\ last.msg = "owner"
    /\ last.caller = groups[last.gid].owner_user_id
    /\ group_member[last.id].is_active

OwnerOnlyOps ==
    {"update_group", "delete_group", "add_group_member", "approve_group_member",
     "update_group_member", "remove_group_member", "get_pending_members",
     "get_group_invitations", "invite_to_group", "invite_user_to_group"}

\* ops whose path names a member of the group
MemberOps == {"approve_group_member", "update_group_member", "remove_group_member"}

\* The request answered by last' is an owner-only request on an existing
\* group (and an existing member of it, where it names one), sent by an
\* account that does not own the group.
NonOwnerRequest ==
    /\ last'.op \in OwnerOnlyOps
    /\ get_group_by_id(last'.gid)
    /\ ~IsOwner(last'.caller, last'.gid)

\* C7 as stated: every owner-only request of an account that is not the
\* group's owner is answered 403 and leaves the group row and the membership
\* rows as they are.
C7_NonOwnerAlwaysRejected ==
    [][(NonOwnerRequest /\ (last'.op \in MemberOps => InGroup(last'.id, last'.gid))) =>
          /\ last'.code = 403
          /\ groups' = groups
          /\ group_member' = group_member]_vars

\* C7 amended: every owner-only request of an account that is not the group's
\* owner is answered 403 and changes no table, except remove member: it looks
\* the member up first (404 when the group has no such member) and lets an
\* account remove its own membership row (a soft delete of that row only, or
\* no change when the store fails).
C7_NonOwnerRejectedButSelfRemoval ==
    [][NonOwnerRequest =>
          IF last'.op # "remove_group_member"
          THEN last'.code = 403 /\ UNCHANGED tables
          ELSE IF ~InGroup(last'.id, last'.gid)
          THEN last'.code = 404 /\ UNCHANGED tables
          ELSE IF group_member[last'.id].user_id # last'.caller
          THEN last'.code = 403 /\ UNCHANGED tables
          ELSE \/ /\ last'.code = 200
                  /\ group_member' = [group_member EXCEPT ![last'.id].is_active = FALSE]
                  /\ UNCHANGED <<user, groups, group_invitation, verification_token>>
               \/ /\ last'.code = 400
                  /\ last'.msg = "remove_failed"
                  /\ UNCHANGED tables]_vars

C7_Witness ==
    /\ last.op = "remove_group_member"
    /\ last.code = 200
    /\ last.caller # groups[last.gid].owner_user_id
    /\ group_member[last.id].user_id = last.caller
    /\ ~group_member[last.id].is_active

\* C8: the status of an invitation row that has left pending never changes
\* again, also when accept, decline and cancel requests overlap.
C8_TerminalStatusIsFinal ==
    [][\A i \in 1..Len(group_invitation) :
          group_invitation[i].status # "pending" =>
              group_invitation'[i].status = group_invitation[i].status]_vars

\* C9: an accept by the invitee of an invitation that is already accepted
\* answers 'already accepted' and inserts or changes no membership row.
C9_SecondAcceptIsNoOp ==
    [][(/\ last'.op = "accept_invitation"
        /\ get_invitation_by_id(last'.id)
        /\ group_invitation[last'.id].status = "accepted"
        /\ group_invitation[last'.id].user_id = last'.caller) =>
          /\ last'.code = 200
          /\ last'.msg = "already_accepted"
          /\ UNCHANGED tables]_vars

\* the second accept came after the member was soft-removed
C9_Witness ==
    /\ last.op = "accept_invitation"
    /\ last.msg = "already_accepted"
    /\ LET m == get_member_by_user_and_group(last.caller, last.gid) IN
          m # 0 /\ ~group_member[m].is_active

InvitationOps == {"accept_invitation", "decline_invitation", "cancel_invitation"}

\* The account that may perform op on an invitation row.
RoleOf(op, invitation) ==
    IF op = "cancel_invitation" THEN invitation.invited_by ELSE invitation.user_id

\* C10: accept and decline are the invitee's, cancel is the inviter's: the
\* request of any other account is answered 403 and leaves the invitation
\* rows and the membership rows as they are, and a request that changes an
\* invitation's status comes from the account with that role.
C10_TransitionsByRole ==
    [][(last'.op \in InvitationOps /\ get_invitation_by_id(last'.id)) =>
          LET role == RoleOf(last'.op, group_invitation[last'.id]) IN
          /\ last'.caller # role =>
                /\ last'.code = 403
                /\ UNCHANGED tables
          /\ group_invitation' # group_invitation => last'.caller = role]_vars

\* the invitee tries to cancel
C10_Witness ==
    /\ last.op = "cancel_invitation"
    /\ last.code = 403
    /\ last.caller = group_invitation[last.id].user_id
    /\ group_invitation[last.id].status = "pending"

\* The terminal state a request moves a pending invitation to.
TargetOf(op) ==
    CASE op = "accept_invitation"  -> "accepted"
      [] op = "decline_invitation" -> "declined"
      [] op = "cancel_invitation"  -> "canceled"

\* C11: accept, decline or cancel on an invitation that is not pending leaves
\* every table as it is; sent by the account the request belongs to, it is
\* answered with a success message when the invitation is already in the
\* state the request targets and with a client error (400) when it is in
\* another terminal state.
C11_NonPendingShortCircuit ==
    [][(/\ last'.op \in InvitationOps
        /\ get_invitation_by_id(last'.id)
        /\ group_invitation[last'.id].status # "pending") =>
          LET invitation == group_invitation[last'.id] IN
          /\ UNCHANGED tables
          /\ last'.caller = RoleOf(last'.op, invitation) =>
                IF invitation.status = TargetOf(last'.op)
                THEN last'.code = 200
                ELSE last'.code = 400 /\ last'.msg = invitation.status]_vars

C11_Witness ==
    /\ last.op = "decline_invitation"
    /\ last.code = 200
    /\ last.msg = "already_declined"
    /\ group_invitation[last.id].status = "declined"

\* a cancel of an invitation that was accepted
C11_WitnessOtherState ==
    /\ last.op = "cancel_invitation"
    /\ last.code = 400
    /\ group_invitation[last.id].status = "accepted"

\* C12: accepting a pending invitation is atomic: when the request ends with
\* success the invitation is accepted and (group, invitee) has an accepted
\* and active membership row; when it ends with an error neither the
\* invitation rows nor the membership rows have changed.
C12_AcceptIsAtomic ==
    [][(/\ last'.op = "accept_invitation"
        /\ get_invitation_by_id(last'.id)
        /\ group_invitation[last'.id].status = "pending"
        /\ group_invitation[last'.id].user_id = last'.caller) =>
          LET i == last'.id
              m == MemberIdOf(group_member', group_invitation[i].group_id, last'.caller)
          IN  IF last'.code = 200
              THEN /\ group_invitation'[i].status = "accepted"
                   /\ m # 0
                   /\ group_member'[m].is_accpet
                   /\ group_member'[m].is_active
              ELSE /\ group_invitation' = group_invitation
                   /\ group_member' = group_member]_vars

\* user u has an accepted and active membership row in group g
ActiveMember(g, u) ==
    LET m == get_member_by_user_and_group(u, g) IN
    m # 0 /\ group_member[m].is_accpet /\ group_member[m].is_active

\* The owner c of group g invites user u, not themselves, who is an accepted
\* and active member of g.
InviteOfActiveMember(c, g, u) ==
    /\ get_group_by_id(g)
    /\ IsOwner(c, g)
    /\ get_user_by_id(u)
    /\ u # c
    /\ ActiveMember(g, u)

C14_ExistingInvitationIsReturned ==
    [][\A c \in Users, g \in GroupIds, u \in UserIds :
          (/\ get_group_by_id(g) /\ IsOwner(c, g) /\ get_user_by_id(u) /\ u # c
           /\ ~ActiveMember(g, u)
           /\ ExistingInvitation(group_invitation, g, u) # 0
           /\ invite_user_to_group(c, g, u)
           /\ last'.msg # "create_failed") =>
              /\ group_invitation' = group_invitation
              /\ last'.code = 200
              /\ last'.ret = ExistingInvitation(group_invitation, g, u)
              /\ last'.msg = "already_invited"]_vars

\* C15: no (group, user) pair has both a pending invitation row and an
\* accepted and active membership row.
C15_PendingExcludesActiveMember ==
    \A i \in 1..Len(group_invitation) :
        group_invitation[i].status = "pending" =>
            ~ActiveMember(group_invitation[i].group_id, group_invitation[i].user_id)

\* token t is stored and its expiry time has not passed
ValidToken(t) ==
    /\ t \in 1..Len(verification_token)
    /\ verification_token[t].token_type = "group_invitation"
    /\ ~verification_token[t].expired

\* C16: a token-based accept with a valid token bound to another address than
\* the caller's is answered 403 and changes no table; an accept that writes a
\* membership row writes only the row of the caller in the token's group, and
\* the caller's address is the one the token is bound to.
C16_TokenIsBoundToEmail ==
    [][\A c \in Users, t \in Tokens :
          (ValidToken(t) /\ accept_group_invitation(c, t)) =>
              LET bound == verification_token[t] IN
              /\ bound.email # EmailOf(c) =>
                    /\ last'.code = 403
                    /\ UNCHANGED tables
              /\ group_member' # group_member =>
                    /\ bound.email = EmailOf(c)
                    /\ \A m \in 1..Len(group_member') :
                          (m > Len(group_member) \/ group_member'[m] # group_member[m]) =>
                              /\ group_member'[m].user_id = c
                              /\ group_member'[m].group_id = bound.group_id]_vars

\* a registered user other than the invited one presented the token
C16_Witness ==
    /\ last.op = "accept_group_invitation"
    /\ last.code = 403
    /\ \E t \in Tokens :
          /\ ValidToken(t)
          /\ get_user_by_email(verification_token[t].email) # 0
          /\ verification_token[t].email # EmailOf(last.caller)

\* C17: verify_invitation of a stored token whose expiry time has passed
\* answers 'expired' and deletes the row; of a stored, unexpired token it
\* returns the group, address and inviter the token was stored with and
\* leaves the table as it is; of a token that is not stored it answers
\* 'invalid'.  A deleted token is never stored again, so every later
\* verification of it answers 'invalid'.
C17_LazyExpiry ==
    [][/\ \A t \in StoredTokens : verify_invitation(t) =>
            IF ~(/\ t \in 1..Len(verification_token)
                 /\ verification_token[t].token_type = "group_invitation")
            THEN /\ last'.msg = "invalid"
                 /\ verification_token' = verification_token
            ELSE IF verification_token[t].expired
            THEN /\ last'.msg = "expired"
                 /\ verification_token' = [verification_token EXCEPT ![t] = NoToken]
                 /\ repo_verify_invitation(verification_token', t).result = "invalid"
            ELSE /\ last'.msg = "ok"
                 /\ last'.gid = verification_token[t].group_id
                 /\ last'.ret = verification_token[t].email
                 /\ last'.caller = verification_token[t].invited_by
                 /\ verification_token' = verification_token
       /\ \A t \in 1..Len(verification_token) :
            ~verification_token[t].live => ~verification_token'[t].live]_vars

\* an expired token was verified: the row is gone
C17_Witness ==
    /\ last.op = "verify_invitation"
    /\ last.msg = "expired"
    /\ verification_token[last.id] = NoToken

\* the stored tokens bound to group g and address e
TokensOf(vt, g, e) ==
    {t \in 1..Len(vt) : /\ vt[t].token_type = "group_invitation"
                         /\ vt[t].group_id = g
                         /\ vt[t].email = e}

\* C18: at most one invitation token is stored for a (group, address) pair;
\* after a successful store_invitation for the pair it is the token just
\* issued, and no token issued for the pair before verifies any more.
C18_ResendOverwrites ==
    [][/\ \A g \in GroupIds, e \in Emails :
            Cardinality(TokensOf(verification_token', g, e)) <= 1
       /\ \A g \in GroupIds, e \in Emails, u \in Users :
            (store_invitation(g, e, u) /\ last'.msg = "ok") =>
                /\ last'.ret = Len(verification_token) + 1
                /\ TokensOf(verification_token', g, e) = {last'.ret}
                /\ \A t \in TokensOf(verification_token, g, e) :
                      repo_verify_invitation(verification_token', t).result = "invalid"]_vars

\* the second invitation for a pair was stored: the first token is gone
C18_Witness ==
    /\ last.op = "store_invitation"
    /\ last.msg = "ok"
    /\ last.ret = 2
    /\ verification_token[1] = NoToken
    /\ verification_token[2].live

\* A token that was handed out and is no longer in the table: used, purged
\* after expiry, or replaced by a newer one.
Gone(t) == t \in 1..Len(verification_token) /\ verification_token[t] = NoToken

\* C19: e-mail verification and password-reset tokens are single-use.  A
\* redemption that gets past the token check takes the token out of the table,
\* a token once out of the table never comes back, and every later
\* verify_email or reset_password with it is answered 400 "invalid or
\* expired" and leaves every account as it was.
C19_TokensAreSingleUse ==
    [][/\ \A t \in UserTokens :
            /\ (verify_email(t) /\ last'.code # 400) => Gone(t)'
            /\ (Gone(t) /\ verify_email(t)) =>
                   (last'.code = 400 /\ last'.msg = "invalid_or_expired" /\ user' = user)
            /\ Gone(t) => Gone(t)'
            /\ \A p \in Passwords :
                /\ (reset_password(t, p) /\ last'.code # 400) => Gone(t)'
                /\ (Gone(t) /\ reset_password(t, p)) =>
                       (last'.code = 400 /\ last'.msg = "invalid_or_expired" /\ user' = user)
      ]_vars

\* The only account was activated with the only token ever issued, and a
\* second verify_email with that token has just been refused.
C19_Witness ==
    /\ Len(verification_token) = 1
    /\ Gone(1)
    /\ \E u \in Users : {v \in Users : user[v].registered} = {u} /\ user[u].is_active
    /\ last.op = "verify_email" /\ last.id = 1 /\ last.code = 400

\* The only account's password was changed with its reset token, and a second
\* reset_password with that token has just been refused.
C19_WitnessReset ==
    /\ \E u \in Users :
          /\ {v \in Users : user[v].registered} = {u}
          /\ user[u].previous_password # NoPassword
    /\ last.op = "reset_password" /\ last.code = 400
    /\ Gone(last.id)


\* C20: a successful login reports change_required, and stamps
\* pwd_change_required into the token it issues, as true exactly when the
\* password was last changed 180 whole days ago or more (a row without a
\* recorded time counts as not due); GET /users/me/password-status, when it
\* answers, draws the line at the same place.
C20_ChangeRequiredFrom180Days ==
    [][/\ \A e \in Emails, p \in Passwords :
            (last'.op = "login" /\ last'.code = 200 /\ login(e, p)) =>
                LET update_at == user[get_user_by_email(e)].update_at
                    due == update_at # NoUpdateAt /\ update_at[1] >= 180 * 24
                IN  /\ last'.ret.password_age.change_required = due
                    /\ last'.ret.access_token.pwd_change_required = due
       /\ \A c \in Users :
            (/\ last'.op = "get_password_status" /\ last'.code = 200
             /\ get_password_status(c)) =>
                last'.ret.change_required = (user[c].update_at[1] >= 180 * 24)
      ]_vars

\* A login exactly 180 days after the password change has just been told
\* that a change is required.
C20_Witness ==
    /\ last.op = "login" /\ last.code = 200
    /\ user[last.caller].update_at = <<180 * 24>>
    /\ last.ret.password_age.days = 180
    /\ last.ret.password_age.change_required
    /\ last.ret.access_token.pwd_change_required

\* A login one hour short of 180 days has just been told that no change is
\* required.
C20_WitnessBelow ==
    /\ last.op = "login" /\ last.code = 200
    /\ user[last.caller].update_at = <<180 * 24 - 1>>
    /\ last.ret.password_age.days = 179
    /\ ~last.ret.password_age.change_required


\* The new password verifies against the current or the previous hash of
\* account u.
Reused(u, new_password) ==
    \/ verify_password(new_password, user[u].password)
    \/ /\ user[u].previous_password # NoPassword
       /\ verify_password(new_password, user[u].previous_password)

\* C21: a password change (by a caller who gave the right current password)
\* or a password reset (with a valid token) whose new password verifies
\* against the current or the previous hash is answered with a failure, and
\* the account's current hash, previous hash and update_at stay as they were.
C21_ReusedPasswordIsRejected ==
    [][/\ \A c \in Users, cur \in Passwords, new \in Passwords :
            (/\ get_current_user(c) = 0
             /\ verify_password(cur, user[c].password)
             /\ Reused(c, new)
             /\ update_password(c, cur, new)) =>
                (last'.code >= 400 /\ user'[c] = user[c])
       /\ \A t \in UserTokens, new \in Passwords :
            (/\ t \in 1..Len(verification_token)
             /\ verification_token[t].token_type = "password_reset"
             /\ ~verification_token[t].expired
             /\ Reused(verification_token[t].user_id, new)
             /\ reset_password(t, new)) =>
                (/\ last'.code >= 400
                 /\ user'[verification_token[t].user_id] =
                        user[verification_token[t].user_id])
      ]_vars

GoodCredentials(email, password) ==
    /\ get_user_by_email(email) # 0
    /\ verify_password(password, user[get_user_by_email(email)].password)
    /\ user[get_user_by_email(email)].is_active

\* C23: a login with the address of an active account and its password is
\* answered 200 with a token, whether or not the login-history row could be
\* written.
C23_LoginHistoryIsNonCritical ==
    [][\A e \in Emails, p \in Passwords :
            (GoodCredentials(e, p) /\ login(e, p)) =>
                (/\ last'.op = "login" /\ last'.code = 200
                 /\ last'.ret.access_token.sub = get_user_by_email(e))
      ]_vars


\* Account c holds a token from an earlier login and is inactive now.
DeactivatedSession(c) ==
    /\ get_user_by_id(c)
    /\ user[c].login_hist > 0
    /\ ~user[c].is_active

\* C24: a request made with the token of an account that is inactive is
\* answered 403 by get_current_user, before the handler runs, and changes no
\* table.
C24_DeactivationIsObserved ==
    [][\A c \in Users :
         DeactivatedSession(c) =>
            /\ (\/ delete_user(c)
                \/ get_password_status(c)
                \/ \E p \in Passwords, q \in Passwords : update_password(c, p, q)
                \/ authenticated(c, "create_group", create_group(c)))
                   => (last'.caller = c /\ last'.code = 403 /\ UNCHANGED tables)
      ]_vars

\* An account that logged in and was deleted has just been refused by
\* get_current_user.
C24_Witness ==
    /\ last.op \in {"delete_user", "get_password_status", "update_password",
                    "create_group"}
    /\ last.code = 403
    /\ DeactivatedSession(last.caller)

\* C25: login answers 200 only for an account that is active; registration
\* creates the account inactive, and an inactive account becomes active only
\* in a verify_email step that takes an e-mail verification token of that
\* account.
C25_NoTokenForInactiveAccount ==
    [][/\ \A e \in Emails, p \in Passwords :
            (login(e, p) /\ last'.op = "login" /\ last'.code = 200) =>
                (get_user_by_email(e) # 0 /\ user[get_user_by_email(e)].is_active)
       /\ \A u \in Users :
            /\ (~user[u].registered /\ user'[u].registered) => ~user'[u].is_active
            /\ (~user[u].is_active /\ user'[u].is_active) =>
                   \E t \in 1..Len(verification_token) :
                      /\ verification_token[t].token_type = "email_verification"
                      /\ verification_token[t].user_id = u
                      /\ ~verification_token[t].expired
                      /\ verify_email(t)
      ]_vars

\* A login with the right password of an account that has not redeemed its
\* verification token has just been refused.
C25_Witness ==
    /\ last.op = "login" /\ last.code = 403
    /\ get_user_by_email(last.id) # 0
    /\ ~user[last.id].is_active
    /\ user[last.id].login_hist = 0
    /\ \E t \in 1..Len(verification_token) :
          /\ verification_token[t].token_type = "email_verification"
          /\ verification_token[t].user_id = last.id

\* A login with the right password of an account that logged in before and
\* was deleted has just been refused.
C25_WitnessDeleted ==
    /\ last.op = "login" /\ last.code = 403
    /\ get_user_by_email(last.id) # 0
    /\ DeactivatedSession(last.id)

\* C26: whenever POST /api-keys succeeds (the vendor is on the allow-list and
\* the key passed that vendor's format check), reading the new row by id with
\* decryption gives back exactly the plaintext of the request, and the value
\* the row stores is not that plaintext.
C26_CredentialRoundTrip ==
    [][\A c \in KeyUsers, v \in Vendors, k \in ApiKeys, a \in BOOLEAN :
          (/\ last'.op = "create_api_key" /\ last'.code = 200 /\ last'.caller = c
           /\ create_api_key(c, v, k, a))
          => /\ v \in AllowedVendors
             /\ check_service_availability(k, v)
             /\ repo_get_api_key_by_id(api_key', last'.id, TRUE).api_key = k
             /\ repo_get_api_key_by_id(api_key', last'.id, FALSE).api_key # k
             /\ api_key'[last'.id].api_key # k]_vars

\* a credential was created whose key has a character of two bytes, and the
\* row decrypts to it
C26_Witness ==
    /\ last.op = "create_api_key"
    /\ last.code = 200
    /\ ApiKeyExists(api_key, last.id)
    /\ api_key[last.id].vendor = "google"
    /\ repo_get_api_key_by_id(api_key, last.id, TRUE).api_key = <<17>> \o Fill(9, 20)

\* the masked form of the key the row of id holds
MaskedOf(id) == masked(repo_get_api_key_by_id(api_key, id, TRUE).api_key)

\* C27: in every successful response of create, list, detail and update the
\* masked key of a credential is the first 4 characters of its plaintext
\* followed by 8 mask characters, and the empty string when the row holds no
\* key (empty, null or not decryptable).
C27_MaskedKeyOnEveryPath ==
    /\ (/\ last.op \in {"create_api_key", "get_api_key_detail", "update_api_key"}
        /\ last.code = 200)
       => last.ret.masked_key = MaskedOf(last.id)
    /\ (last.op = "get_user_api_keys" /\ last.code = 200)
       => \A r \in last.ret : r.masked_key = MaskedOf(r.api_key_id)

\* what the row of id keeps secret: the stored ciphertext and its plaintext
Secrets(id) ==
    IF ~ApiKeyExists(api_key, id) THEN {}
    ELSE {api_key[id].api_key, repo_get_api_key_by_id(api_key, id, TRUE).api_key} \ {None}

\* a response body that shows neither of them
Hidden(r) ==
    /\ "api_key" \in DOMAIN r => r.api_key = None
    /\ r.masked_key \notin Secrets(r.api_key_id)

\* C28: the successful responses of create, list and update carry no api_key
\* value and nothing equal to the plaintext or the ciphertext of the row; a
\* detail request is answered with the key only when the caller owns the
\* row, and is refused without a body when the caller is another account.
C28_PlaintextOnlyToOwner ==
    /\ (last.op \in {"create_api_key", "update_api_key"} /\ last.code = 200)
       => Hidden(last.ret)
    /\ (last.op = "get_user_api_keys" /\ last.code = 200)
       => \A r \in last.ret : Hidden(r)
    /\ (/\ last.op = "get_api_key_detail"
        /\ ApiKeyExists(api_key, last.id)
        /\ api_key[last.id].user_id # last.caller)
       => last.code # 200 /\ last.ret = None
    /\ (last.op = "get_api_key_detail" /\ last.code = 200)
       => /\ api_key[last.id].user_id = last.caller
          /\ last.ret.api_key \in Secrets(last.id) \cup {None}

\* another account asked for the detail of a credential and was refused
C28_Witness ==
    /\ last.op = "get_api_key_detail"
    /\ ApiKeyExists(api_key, last.id)
    /\ api_key[last.id].api_key # None
    /\ api_key[last.id].user_id # last.caller
    /\ last.code = 403

\* the owner asked for the detail and got the plaintext
C28_WitnessOwner ==
    /\ last.op = "get_api_key_detail"
    /\ last.code = 200
    /\ last.ret.api_key \in ApiKeys

\* the credential of id was deleted: the id was given out and has no row
Deleted(id) == id \in 1..Len(api_key) /\ ~api_key[id].live

\* C29: a detail request for the id of a deleted credential is answered 404
\* (not found), and a detail request for a credential of another account is
\* answered with the not-owner refusal, never with 404.
C29_DeletedIsNotFound ==
    last.op = "get_api_key_detail"
    => /\ Deleted(last.id) => last.code = 404
       /\ (ApiKeyExists(api_key, last.id) /\ api_key[last.id].user_id # last.caller)
          => last.code = 403

\* C30: after a successful answer of the approve-member endpoint the
\* membership row it names (the member the endpoint returns) is accepted and
\* active, whatever its flags were before the call.
C30_ApprovedMemberIsAcceptedAndActive ==
    (last.op = "approve_group_member" /\ last.code = 200)
    => /\ group_member[last.id].is_accpet
       /\ group_member[last.id].is_active

\* C31: whatever overlapping requests add a member (direct adds, accepts of
\* an invitation, accepts of an e-mail invitation), the group_member table
\* holds at most one row for a (group, user) pair.
C31_OneRowPerPairUnderOverlap ==
    \A g \in GroupIds, u \in Users :
        Cardinality({m \in 1..Len(group_member) :
                        group_member[m].group_id = g /\ group_member[m].user_id = u}) <= 1


\* ---- C32 ----
PendingInvitations(gi, group_id, user_id) ==
    {i \in 1..Len(gi) : /\ gi[i].group_id = group_id
                        /\ gi[i].user_id = user_id
                        /\ gi[i].status = "pending"}

LiveInvitationTokens(vt, group_id, email) ==
    {t \in 1..Len(vt) : /\ vt[t].live
                        /\ vt[t].token_type = "group_invitation"
                        /\ vt[t].group_id = group_id
                        /\ vt[t].email = email}

\* C32 as stated: under any interleaving of overlapping invite-user requests
\* and of overlapping e-mail resends there is at most one pending invitation
\* row per (group, user) and at most one live invitation token per
\* (e-mail, group).
C32_AtMostOneUnderOverlap ==
    /\ \A g \in GroupIds, u \in UserIds :
           Cardinality(PendingInvitations(group_invitation, g, u)) <= 1
    /\ \A g \in GroupIds, e \in Emails :
           Cardinality(LiveInvitationTokens(verification_token, g, e)) <= 1

\* C32, amended: a request that is served alone (its check and its write
\* with no other request between them) never adds a second pending row to a
\* (group, user) pair and leaves at most one live token for the
\* (e-mail, group) it stored.
C32_AtMostOneWhenServedAlone ==
    [][/\ \A c \in Users, g \in GroupIds, u \in UserIds :
              invite_user_to_group(c, g, u) =>
                  \/ Cardinality(PendingInvitations(group_invitation', g, u)) <= 1
                  \/ group_invitation' = group_invitation
       /\ \A c \in Users, g \in GroupIds, e \in Emails :
              (/\ verification_token' # verification_token
               /\ invite_to_group_with_room(c, g, e, RoomForRacingToken)) =>
                  Cardinality(LiveInvitationTokens(verification_token', g, e)) <= 1
      ]_vars

\* A resend has replaced the earlier token, and a pending invitation exists.
C32_Witness ==
    /\ Len(verification_token) = 2
    /\ ~verification_token[1].live
    /\ verification_token[2].live
    /\ \E i \in 1..Len(group_invitation) : group_invitation[i].status = "pending"

\* ---- C33 ----
\* The caller's row in the group of a stored token is an accepted row of
\* somebody who is not the owner.  Where the only requests are create_group,
\* invite_to_group, accept_group_invitation and remove_group_member, such a
\* row was accepted by a token accept, and the store has held one token.
AcceptedWithToken(caller, token) ==
    /\ token \in 1..Len(verification_token)
    /\ verification_token[token].token_type = "group_invitation"
    /\ LET g == verification_token[token].group_id
           m == MemberIdOf(group_member, g, caller)
       IN  /\ g \in 1..Len(groups)
           /\ groups[g].owner_user_id # caller
           /\ m # 0
           /\ group_member[m].is_accpet

\* C33: after a token accept has succeeded with a token, a later accept with
\* the same token (for example after the owner soft-removed the member) does
\* not create, accept or reactivate a membership row.
C33_TokenMaterialisesOnce ==
    [][\A c \in Users, t \in Tokens :
           (AcceptedWithToken(c, t) /\ accept_group_invitation(c, t)) =>
               group_member' = group_member]_vars

\* ---- C34 ----
ActiveRows(gm, group_id) ==
    {m \in 1..Len(gm) : gm[m].group_id = group_id /\ gm[m].is_active}

\* C34: once a group has been deleted, no membership row of it is active in
\* any later state while the group remains inactive.  delete_group leaves the
\* group inactive with no active row; the property is that no step that
\* leaves the group inactive makes a row of it active again.
C34_NoActiveMemberInDeletedGroup ==
    [][\A g \in GroupIds :
           (/\ g \in 1..Len(groups)
            /\ ~groups[g].is_active
            /\ ~groups'[g].is_active
            /\ ActiveRows(group_member, g) = {}) =>
               ActiveRows(group_member', g) = {}]_vars

\* ---- C35 ----
\* C35: in every state in which a group is active, the owner's membership
\* row in that group is accepted and active.
C35_OwnerOfActiveGroupIsMember ==
    \A g \in 1..Len(groups) :
        groups[g].is_active =>
            \E m \in RowsOf(group_member, g) :
                /\ group_member[m].user_id = groups[g].owner_user_id
                /\ group_member[m].is_accpet
                /\ group_member[m].is_active

\* ---- C36 ----
\* C36: in every state the credential referenced by a group is owned by the
\* group's owner.
C36_GroupCredentialIsOwners ==
    \A g \in 1..Len(group_api_key) :
        ApiKeyExists(api_key, group_api_key[g]) =>
            api_key[group_api_key[g]].user_id = groups[g].owner_user_id

\* ---- C37 ----
\* C37: in every state every group references a credential that exists, and
\* the owner's request for the detail of a group that exists is answered
\* with it.
C37_GroupCredentialExists ==
    /\ \A g \in 1..Len(group_api_key) : ApiKeyExists(api_key, group_api_key[g])
    /\ (/\ last.op = "get_group_details"
        /\ get_group_by_id(last.gid)
        /\ IsOwner(last.caller, last.gid)) => last.code = 200

\* ---- C38 ----
\* C38: storing an e-mail invitation for (group g, address e) removes only
\* earlier invitation tokens bound to exactly (g, e): every stored row bound
\* to another address or another group, or of another type, is left as it
\* is, also when e holds a LIKE wildcard.
C38_StoreRemovesOnlyItsPair ==
    [][\A g \in GroupIds, e \in Emails, u \in Users :
           store_invitation(g, e, u) =>
               \A t \in 1..Len(verification_token) :
                   (\/ verification_token[t].token_type # "group_invitation"
                    \/ verification_token[t].group_id # g
                    \/ verification_token[t].email # e) =>
                       verification_token'[t] = verification_token[t]]_vars

\* ---- C39 ----
\* C39: whenever user u is not an accepted and active member of group g and
\* has no pending invitation for g, the owner's invite-user request (when
\* the store does not fail) creates a new pending invitation row, whichever
\* terminal states the earlier invitations of (g, u) are in.
C39_FreshInvitationAfterTerminated ==
    [][\A c \in Users, g \in GroupIds, u \in UserIds :
          (/\ get_group_by_id(g) /\ IsOwner(c, g) /\ get_user_by_id(u) /\ u # c
           /\ ~ActiveMember(g, u)
           /\ PendingInvitations(group_invitation, g, u) = {}
           /\ invite_user_to_group(c, g, u)
           /\ last'.msg # "create_failed") =>
              /\ last'.code = 200
              /\ group_invitation' =
                     Append(group_invitation,
                            [group_id |-> g, user_id |-> u, invited_by |-> c,
                             status |-> "pending"])]_vars

\* ---- C40 ----
TokensOfUser(vt, user_id, token_type) ==
    {t \in 1..Len(vt) : /\ vt[t].live
                        /\ vt[t].user_id = user_id
                        /\ vt[t].token_type = token_type}

\* What a successful store_verification_token(user_id, token_type) that
\* issued token `issued` has done to the table.
IssuedInvalidatesEarlier(user_id, token_type, issued) ==
    /\ TokensOfUser(verification_token', user_id, token_type) = {issued}
    /\ \A t \in TokensOfUser(verification_token, user_id, token_type) :
           /\ t # issued
           /\ repo_verify_token(verification_token', t, token_type, FALSE).user_id = 0
    /\ \A t \in 1..Len(verification_token) :
           (\/ verification_token[t].user_id # user_id
            \/ verification_token[t].token_type # token_type) =>
               verification_token'[t] = verification_token[t]

\* C40: after a verification or password-reset token was issued for a user,
\* the user has exactly that one token of the type, every earlier token of
\* the type fails redemption, and the tokens of other types and of other
\* users are unchanged.
C40_NewTokenInvalidatesEarlier ==
    [][\A e \in Emails :
          /\ (request_password_reset(e) /\ last'.op = "request_password_reset"
                  /\ last'.ret # 0) =>
                 IssuedInvalidatesEarlier(get_user_by_email(e), "password_reset",
                                          last'.ret)
          /\ \A p \in Passwords :
                 (register_user(e, p) /\ last'.op = "register_user" /\ last'.code = 200
                      /\ last'.ret # 0) =>
                     IssuedInvalidatesEarlier(last'.caller, "email_verification",
                                              last'.ret)]_vars

\* A password-reset token was issued for a user who holds the token of the
\* registration: both are stored, each the user's only one of its type.
C40_Witness ==
    /\ last.op = "request_password_reset"
    /\ last.ret = 2
    /\ verification_token[1].live
    /\ verification_token[1].token_type = "email_verification"
    /\ verification_token[2].live
    /\ verification_token[2].token_type = "password_reset"
    /\ verification_token[2].user_id = verification_token[1].user_id
====
